---- MODULE Spec2Model ----
(***************************************************************************)
(* Model of the AI response reconciliation layer of the quiz application   *)
(* (src/services/ai_service.py): response parser, question validator,      *)
(* fallback generator and the retrying quiz orchestrator.                  *)
(*                                                                         *)
(* Representation.                                                         *)
(*  - A str whose characters the program inspects (a question, an option,  *)
(*    a topic) is a sequence of one-character strings, so that strip(),    *)
(*    lower(), len() and substring search are computed.                    *)
(*  - A JSON value, as json.loads builds it, is a record                   *)
(*      [k |-> kind, n |-> number, s |-> str, a |-> elements, o |-> dict]  *)
(*    with k in "null", "bool", "int", "float", "inf", "nan", "str",       *)
(*    "array", "object".  A float carries its value in tenths (27 is 2.7); *)
(*    "inf" carries its sign in n.                                         *)
(*  - A Python dict with str keys is a function from keys to JSON values.  *)
(*  - A response text of the model endpoint is a sequence of lexemes       *)
(*    [t |-> type, v |-> JSON value]: the JSON punctuation "[", "]", "{",  *)
(*    "}", ",", ":", a scalar literal "lit" (v is its value), a run of     *)
(*    whitespace "ws", a word of prose "word" (v is its text), an object   *)
(*    key "key" (name is the key) and a code fence of three backticks      *)
(*    "fence".  Words and literals hold no bracket, brace or backtick.     *)
(***************************************************************************)
EXTENDS Integers, Sequences, FiniteSets, TLC

VARIABLES
    quiz_topic,       \* generate_quiz: the topic argument
    pc,               \* generate_quiz: where the call is
    attempt,          \* generate_quiz: the loop variable, 0-based
    last_error,       \* generate_quiz: last_error
    transport_calls,  \* calls of the model endpoint made so far (history)
    in_flight,        \* calls of the model endpoint that have not ended
    sleeps,           \* calls of time.sleep made so far (history)
    slept,            \* time units slept so far (history)
    last_response,    \* what the call of the current attempt did (history)
    result,           \* the list generate_quiz returned, <<>> before
    raised,           \* the exception that left generate_quiz, "none" if none
    failed_attempts,  \* attempts that ended without returning (history)
    dropped_valid,    \* an attempt ended without returning although it had
                      \* collected valid questions (history)
    v_question,       \* validator run: the dict handed to _validate_question
    v_verdict,        \* validator run: "pending", or the outcome of the call
    p_text,           \* parser run: the text handed to _extract_json
    p_outcome,        \* parser run: the outcome of the call, act "pending" before
    g_topic,          \* fallback run: the topic argument
    g_slot,           \* fallback run: the question_id argument
    g_question,       \* fallback run: the dict returned, <<>> before
    fb_pc,            \* generate_feedback: where the call is
    fb_score,         \* generate_feedback: the score argument
    fb_total,         \* generate_feedback: the total argument
    fb_topic,         \* generate_feedback: the topic argument
    fb_calls,         \* calls of the model endpoint made so far (history)
    fb_sleeps,        \* calls of time.sleep made so far (history)
    fb_response,      \* what the call of the model endpoint did (history)
    fb_source,        \* which return statement ended the call (history)
    fb_result,        \* the str generate_feedback returned, <<>> before
    fb_raised,        \* the exception that left generate_feedback, or "none"
    _ai_service,      \* the module global: 0 for None, else the number of an instance
    s_pc,             \* get_ai_service: where the call of each request is
    s_local,          \* get_ai_service: the instance a request built and has yet
                      \* to store, 0 for none
    s_got,            \* get_ai_service: the instance each request was handed,
                      \* 0 before
    s_built,          \* AIService instances constructed so far (history)
    s_writes          \* assignments to the global made so far (history)

quizVars ==
    <<quiz_topic, pc, attempt, last_error, transport_calls, in_flight, sleeps, slept,
      last_response, result, raised, failed_attempts, dropped_valid>>

validatorVars == <<v_question, v_verdict>>

parserVars == <<p_text, p_outcome>>

fallbackVars == <<g_topic, g_slot, g_question>>

feedbackVars ==
    <<fb_pc, fb_score, fb_total, fb_topic, fb_calls, fb_sleeps, fb_response, fb_source,
      fb_result, fb_raised>>

serviceVars == <<_ai_service, s_pc, s_local, s_got, s_built, s_writes>>

vars == <<quizVars, validatorVars, parserVars, fallbackVars, feedbackVars, serviceVars>>

---------------------------------------------------------------------------
(* JSON values as json.loads builds them *)

JNull == [k |-> "null", n |-> 0, s |-> <<>>, a |-> <<>>, o |-> <<>>]

JBool(b) == [k |-> "bool", n |-> IF b THEN 1 ELSE 0, s |-> <<>>, a |-> <<>>, o |-> <<>>]

JInt(i) == [k |-> "int", n |-> i, s |-> <<>>, a |-> <<>>, o |-> <<>>]

JFloat(tenths) == [k |-> "float", n |-> tenths, s |-> <<>>, a |-> <<>>, o |-> <<>>]

JInf(sign) == [k |-> "inf", n |-> sign, s |-> <<>>, a |-> <<>>, o |-> <<>>]

JNaN == [k |-> "nan", n |-> 0, s |-> <<>>, a |-> <<>>, o |-> <<>>]

JStr(text) == [k |-> "str", n |-> 0, s |-> text, a |-> <<>>, o |-> <<>>]

JArr(elems) == [k |-> "array", n |-> 0, s |-> <<>>, a |-> elems, o |-> <<>>]

JObj(members) == [k |-> "object", n |-> 0, s |-> <<>>, a |-> <<>>, o |-> members]

(* dict.get(key, default) *)
Get(d, key, default) == IF key \in DOMAIN d THEN d[key] ELSE default

(* Python truth value of a JSON value, as `not x` tests it *)
Truthy(v) ==
    CASE v.k = "null" -> FALSE
      [] v.k \in {"bool", "int", "float"} -> v.n # 0
      [] v.k \in {"inf", "nan"} -> TRUE
      [] v.k = "str" -> v.s # <<>>
      [] v.k = "array" -> v.a # <<>>
      [] v.k = "object" -> DOMAIN v.o # {}

---------------------------------------------------------------------------
(* str methods *)

Whitespace == {" ", "\t", "\n"}

UpperCase ==
    <<"A", "B", "C", "D", "E", "F", "G", "H", "I", "J", "K", "L", "M", "N", "O", "P", "Q", "R", "S", "T", "U", "V", "W", "X", "Y", "Z">>

LowerCase ==
    <<"a", "b", "c", "d", "e", "f", "g", "h", "i", "j", "k", "l", "m", "n", "o", "p", "q", "r", "s", "t", "u", "v", "w", "x", "y", "z">>

DigitChars ==
    <<"0", "1", "2", "3", "4", "5", "6", "7", "8", "9">>

RECURSIVE LStrip(_)
LStrip(text) ==
    IF text # <<>> /\ Head(text) \in Whitespace THEN LStrip(Tail(text)) ELSE text

RECURSIVE RStrip(_)
RStrip(text) ==
    IF text # <<>> /\ text[Len(text)] \in Whitespace
    THEN RStrip(SubSeq(text, 1, Len(text) - 1))
    ELSE text

(* str.strip() *)
Strip(text) == RStrip(LStrip(text))

LowerChar(c) ==
    IF \E i \in 1..Len(UpperCase) : UpperCase[i] = c
    THEN LowerCase[CHOOSE i \in 1..Len(UpperCase) : UpperCase[i] = c]
    ELSE c

(* str.lower() *)
Lower(text) == [i \in 1..Len(text) |-> LowerChar(text[i])]

(* `pattern in text` *)
Contains(pattern, text) ==
    \E i \in 0..(Len(text) - Len(pattern)) :
        SubSeq(text, i + 1, i + Len(pattern)) = pattern

IsDigit(c) == \E i \in 1..Len(DigitChars) : DigitChars[i] = c

DigitValue(c) == (CHOOSE i \in 1..Len(DigitChars) : DigitChars[i] = c) - 1

RECURSIVE Digits(_)
Digits(i) ==
    IF i < 10 THEN <<DigitChars[i + 1]>>
    ELSE Digits(i \div 10) \o <<DigitChars[(i % 10) + 1]>>

(* str(i) of an int *)
IntText(i) == IF i < 0 THEN <<"-">> \o Digits(-i) ELSE Digits(i)

(* str(x) of a finite float held in tenths *)
FloatText(tenths) ==
    LET m == IF tenths < 0 THEN -tenths ELSE tenths
    IN  (IF tenths < 0 THEN <<"-">> ELSE <<>>)
            \o Digits(m \div 10) \o <<".">> \o Digits(m % 10)

(* sep.join(texts[lo..hi]), built by halves *)
RECURSIVE JoinRange(_, _, _, _)
JoinRange(sep, texts, lo, hi) ==
    IF lo > hi THEN <<>>
    ELSE IF lo = hi THEN texts[lo]
    ELSE JoinRange(sep, texts, lo, (lo + hi) \div 2)
            \o sep \o JoinRange(sep, texts, ((lo + hi) \div 2) + 1, hi)

Join(sep, texts) == JoinRange(sep, texts, 1, Len(texts))

(* the keys of a dict, in a fixed order *)
RECURSIVE KeySeq(_)
KeySeq(keys) ==
    IF keys = {} THEN <<>>
    ELSE LET key == CHOOSE x \in keys : TRUE IN <<key>> \o KeySeq(keys \ {key})

(* str(x) and repr(x) of a JSON value; a dict key is shown as 'k' *)
RECURSIVE PyStr(_)
RECURSIVE PyRepr(_)
PyStr(v) ==
    CASE v.k = "str" -> v.s
      [] v.k = "null" -> <<"N", "o", "n", "e">>
      [] v.k = "bool" -> IF v.n = 1 THEN <<"T", "r", "u", "e">> ELSE <<"F", "a", "l", "s", "e">>
      [] v.k = "int" -> IntText(v.n)
      [] v.k = "float" -> FloatText(v.n)
      [] v.k = "inf" -> IF v.n < 0 THEN <<"-", "i", "n", "f">> ELSE <<"i", "n", "f">>
      [] v.k = "nan" -> <<"n", "a", "n">>
      [] v.k = "array" ->
            <<"[">> \o Join(<<",", " ">>, [i \in 1..Len(v.a) |-> PyRepr(v.a[i])]) \o <<"]">>
      [] v.k = "object" ->
            LET keys == KeySeq(DOMAIN v.o)
            IN  <<"{">>
                    \o Join(<<",", " ">>,
                            [i \in 1..Len(keys) |->
                                <<"'", "k", "'", ":", " ">> \o PyRepr(v.o[keys[i]])])
                    \o <<"}">>

PyRepr(v) == IF v.k = "str" THEN <<"'">> \o v.s \o <<"'">> ELSE PyStr(v)

RECURSIVE DigitsValue(_, _)
DigitsValue(text, acc) ==
    IF text = <<>> THEN acc
    ELSE IF Head(text) = "_" THEN DigitsValue(Tail(text), acc)
    ELSE DigitsValue(Tail(text), 10 * acc + DigitValue(Head(text)))

(* int(text) of a str: surrounding whitespace, an optional sign, decimal    *)
(* digits with single underscores between them; anything else ValueError   *)
IntOfText(text) ==
    LET t == Strip(text)
        signed == t # <<>> /\ Head(t) \in {"+", "-"}
        body == IF signed THEN Tail(t) ELSE t
        wellFormed ==
            /\ body # <<>>
            /\ IsDigit(body[1]) /\ IsDigit(body[Len(body)])
            /\ \A i \in 1..Len(body) : IsDigit(body[i]) \/ body[i] = "_"
            /\ \A i \in 1..(Len(body) - 1) : ~(body[i] = "_" /\ body[i + 1] = "_")
        magnitude == DigitsValue(body, 0)
    IN  IF ~wellFormed THEN [exc |-> "ValueError", val |-> 0]
        ELSE [exc |-> "none",
              val |-> IF signed /\ Head(t) = "-" THEN -magnitude ELSE magnitude]

(* int(x): the value, or the exception the call raises *)
PyInt(v) ==
    CASE v.k \in {"int", "bool"} -> [exc |-> "none", val |-> v.n]
      [] v.k = "float" ->
            [exc |-> "none",
             val |-> IF v.n >= 0 THEN v.n \div 10 ELSE -((-v.n) \div 10)]
      [] v.k = "inf" -> [exc |-> "OverflowError", val |-> 0]
      [] v.k = "nan" -> [exc |-> "ValueError", val |-> 0]
      [] v.k = "str" -> IntOfText(v.s)
      [] v.k \in {"null", "array", "object"} -> [exc |-> "TypeError", val |-> 0]

---------------------------------------------------------------------------
(* Question Validator *)

MinQuestionLen == 15

OptionCount == 4

ShortOptionLen == 2

MaxCorrectIndex == 3

low_quality_patterns ==
    { <<"a", "b", "b", "r", "e", "v", "i", "a", "t", "i", "o", "n", " ", "f", "o", "r">>,
      <<"a", "c", "r", "o", "n", "y", "m", " ", "f", "o", "r">>,
      <<"w", "h", "a", "t", " ", "d", "o", "e", "s", " ", "t", "h", "e", " ", "w", "o", "r", "d">>,
      <<"s", "p", "e", "l", "l", " ">>,
      <<"h", "o", "w", " ", "d", "o", " ", "y", "o", "u", " ", "s", "p", "e", "l", "l">>,
      <<"d", "e", "f", "i", "n", "e", " ", "t", "h", "e", " ", "w", "o", "r", "d">>,
      <<"s", "y", "n", "o", "n", "y", "m", " ", "f", "o", "r">>,
      <<"a", "n", "t", "o", "n", "y", "m", " ", "f", "o", "r">>,
      <<"q", "1">>, <<"q", "2">>, <<"q", "3">>, <<"q", "4">>, <<"q", "5">>,
      <<"q", "u", "e", "s", "t", "i", "o", "n", " ", "t", "e", "x", "t">>,
      <<"y", "o", "u", "r", " ", "q", "u", "e", "s", "t", "i", "o", "n">> }

(* AIService._validate_question: "True", "False", or the name of the       *)
(* exception that leaves the call                                          *)
_validate_question(question) ==
    IF "question" \notin DOMAIN question \/ ~Truthy(question["question"])
    THEN "False"
    ELSE IF question["question"].k # "str" THEN "AttributeError"
    ELSE LET q_text == Strip(question["question"].s)
             q_lower == Lower(q_text)
         IN
    IF Len(q_text) < MinQuestionLen THEN "False"
    ELSE IF \E pattern \in low_quality_patterns : Contains(pattern, q_lower)
    THEN "False"
    ELSE IF "options" \notin DOMAIN question THEN "False"
    ELSE IF question["options"].k # "array"
            \/ Len(question["options"].a) # OptionCount
    THEN "False"
    ELSE LET options == question["options"].a IN
    IF \A i \in 1..Len(options) : Len(Strip(PyStr(options[i]))) <= ShortOptionLen
    THEN "False"
    ELSE LET correct_idx ==
                 Get(question, "correct_index", Get(question, "correctIndex", JNull))
         IN
    IF correct_idx.k = "null" THEN "False"
    ELSE LET idx == PyInt(correct_idx) IN
    IF idx.exc = "none"
    THEN (IF idx.val < 0 \/ idx.val > MaxCorrectIndex THEN "False" ELSE "True")
    ELSE IF idx.exc \in {"ValueError", "TypeError"} THEN "False"
    ELSE idx.exc

---------------------------------------------------------------------------
(* Response texts and json.loads *)

Lx(type) == [t |-> type, v |-> JNull, name |-> ""]

Lit(value) == [t |-> "lit", v |-> value, name |-> ""]

Key(keyName) == [t |-> "key", v |-> JNull, name |-> keyName]

Word(text) == [t |-> "word", v |-> JStr(text), name |-> ""]

W_json ==
    Word(<<"j", "s", "o", "n">>)

RECURSIVE LStripText(_)
LStripText(text) ==
    IF text # <<>> /\ Head(text).t = "ws" THEN LStripText(Tail(text)) ELSE text

RECURSIVE RStripText(_)
RStripText(text) ==
    IF text # <<>> /\ text[Len(text)].t = "ws"
    THEN RStripText(SubSeq(text, 1, Len(text) - 1))
    ELSE text

(* str.strip() of a response text *)
StripText(text) == RStripText(LStripText(text))

(* str.find / str.rfind of a one-character token: its position, 0 for -1 *)
Find(text, type) ==
    IF \E i \in 1..Len(text) : text[i].t = type
    THEN CHOOSE i \in 1..Len(text) :
            text[i].t = type /\ \A j \in 1..(i - 1) : text[j].t # type
    ELSE 0

RFind(text, type) ==
    IF \E i \in 1..Len(text) : text[i].t = type
    THEN CHOOSE i \in 1..Len(text) :
            text[i].t = type /\ \A j \in (i + 1)..Len(text) : text[j].t # type
    ELSE 0

StartsWith(text, type) == text # <<>> /\ text[1].t = type

RECURSIVE SkipWs(_, _)
SkipWs(text, p) ==
    IF p <= Len(text) /\ text[p].t = "ws" THEN SkipWs(text, p + 1) ELSE p

DecodeError == [ok |-> FALSE, val |-> JNull, next |-> 0]

(* the JSON decoder: the value starting at position p and the position    *)
(* after it, or a decode error                                            *)
RECURSIVE ParseValue(_, _)
RECURSIVE ParseElements(_, _, _)
RECURSIVE ParseMembers(_, _, _)
ParseValue(text, p) ==
    IF p > Len(text) THEN DecodeError
    ELSE IF text[p].t = "lit" THEN [ok |-> TRUE, val |-> text[p].v, next |-> p + 1]
    ELSE IF text[p].t = "[" THEN
        LET q == SkipWs(text, p + 1)
        IN  IF q <= Len(text) /\ text[q].t = "]"
            THEN [ok |-> TRUE, val |-> JArr(<<>>), next |-> q + 1]
            ELSE ParseElements(text, q, <<>>)
    ELSE IF text[p].t = "{" THEN
        LET q == SkipWs(text, p + 1)
        IN  IF q <= Len(text) /\ text[q].t = "}"
            THEN [ok |-> TRUE, val |-> JObj(<<>>), next |-> q + 1]
            ELSE ParseMembers(text, q, <<>>)
    ELSE DecodeError

ParseElements(text, p, acc) ==
    LET elem == ParseValue(text, p)
        q == SkipWs(text, elem.next)
    IN  IF ~elem.ok \/ q > Len(text) THEN DecodeError
        ELSE IF text[q].t = "," THEN
            ParseElements(text, SkipWs(text, q + 1), Append(acc, elem.val))
        ELSE IF text[q].t = "]" THEN
            [ok |-> TRUE, val |-> JArr(Append(acc, elem.val)), next |-> q + 1]
        ELSE DecodeError

ParseMembers(text, p, acc) ==
    IF p > Len(text) \/ text[p].t # "key" THEN DecodeError
    ELSE LET c == SkipWs(text, p + 1) IN
    IF c > Len(text) \/ text[c].t # ":" THEN DecodeError
    ELSE LET member == ParseValue(text, SkipWs(text, c + 1))
             q == SkipWs(text, member.next)
             dict == [key \in DOMAIN acc \cup {text[p].name} |->
                        IF key = text[p].name THEN member.val ELSE acc[key]]
         IN
    IF ~member.ok \/ q > Len(text) THEN DecodeError
    ELSE IF text[q].t = "," THEN ParseMembers(text, SkipWs(text, q + 1), dict)
    ELSE IF text[q].t = "}" THEN [ok |-> TRUE, val |-> JObj(dict), next |-> q + 1]
    ELSE DecodeError

(* the decoder's result stands when only whitespace follows the value *)
WholeText(text, r) ==
    IF r.ok /\ SkipWs(text, r.next) = Len(text) + 1
    THEN [ok |-> TRUE, val |-> r.val]
    ELSE [ok |-> FALSE, val |-> JNull]

(* json.loads(text): ok is FALSE for json.JSONDecodeError *)
json_loads(text) == WholeText(text, ParseValue(text, SkipWs(text, 1)))

---------------------------------------------------------------------------
(* Response Parser *)

(* what enumerate(questions_list) goes through: the elements of a list;   *)
(* the characters of a str and the keys of a dict, none of them a dict    *)
Iterable(v) == v.k \in {"array", "str", "object"}

(* normalize_questions reading correctIndex ahead of correct_index *)
RECURSIVE NormalizeFrom_CamelFirst(_, _)
NormalizeFrom_CamelFirst(elems, i) ==
    IF i > Len(elems) THEN <<>>
    ELSE LET q == elems[i]
         IN  IF q.k = "object"
             THEN << [id |-> Get(q.o, "id", JInt(i)),
                      question |-> Get(q.o, "question", JStr(<<>>)),
                      options |-> Get(q.o, "options", JArr(<<>>)),
                      correct_index |->
                          Get(q.o, "correctIndex", Get(q.o, "correct_index", JInt(0)))] >>
                    \o NormalizeFrom_CamelFirst(elems, i + 1)
             ELSE NormalizeFrom_CamelFirst(elems, i + 1)

(* the loop of normalize_questions from element i on: a candidate for    *)
(* each dict, nothing for any other element                              *)
RECURSIVE NormalizeFrom(_, _)
NormalizeFrom(elems, i) ==
    IF i > Len(elems) THEN <<>>
    ELSE LET q == elems[i]
         IN  IF q.k = "object"
             THEN << [id |-> Get(q.o, "id", JInt(i)),
                      question |-> Get(q.o, "question", JStr(<<>>)),
                      options |-> Get(q.o, "options", JArr(<<>>)),
                      correct_index |->
                          Get(q.o, "correct_index", Get(q.o, "correctIndex", JInt(0)))] >>
                    \o NormalizeFrom(elems, i + 1)
             ELSE NormalizeFrom(elems, i + 1)

(* normalize_questions: the normalized list, or the TypeError of          *)
(* enumerate() on a value that is not iterable                            *)
normalize_questions(questions_list) ==
    IF ~Iterable(questions_list) THEN [exc |-> "TypeError", questions |-> <<>>]
    ELSE [exc |-> "none",
          questions |-> IF questions_list.k = "array"
                        THEN NormalizeFrom(questions_list.a, 1)
                        ELSE <<>>]

(* re.findall of a fenced pattern from position p on: the captured groups *)
RECURSIVE FencedMatches(_, _, _)
FencedMatches(text, p, jsonTag) ==
    LET Opens(i) ==
            /\ text[i].t = "fence"
            /\ jsonTag => (i + 1 <= Len(text) /\ text[i + 1] = W_json)
        Closes(j) == text[j].t = "fence"
    IN  IF ~\E i \in p..Len(text) : Opens(i) THEN <<>>
        ELSE LET open == CHOOSE i \in p..Len(text) :
                            Opens(i) /\ \A k \in p..(i - 1) : ~Opens(k)
                 body == IF jsonTag THEN open + 2 ELSE open + 1
             IN  IF ~\E j \in body..Len(text) : Closes(j) THEN <<>>
                 ELSE LET close == CHOOSE j \in body..Len(text) :
                                      Closes(j) /\ \A k \in body..(j - 1) : ~Closes(k)
                      IN  << StripText(SubSeq(text, body, close - 1)) >>
                              \o FencedMatches(text, close + 1, jsonTag)

(* re.findall of a greedy span pattern: first opener to last closer *)
SpanMatches(text, opener, closer) ==
    LET first == Find(text, opener)
        last == RFind(text, closer)
    IN  IF first # 0 /\ last > first THEN << SubSeq(text, first, last) >> ELSE <<>>

(* json_patterns with the untagged fence ahead of the tagged one *)
PatternMatches_UntaggedFirst(text, i) ==
    CASE i = 0 -> FencedMatches(text, 1, FALSE)
      [] i = 1 -> FencedMatches(text, 1, TRUE)
      [] i = 2 -> SpanMatches(text, "[", "]")
      [] i = 3 -> SpanMatches(text, "{", "}")

(* the matches of json_patterns[i], in text order *)
PatternMatches(text, i) ==
    CASE i = 0 -> FencedMatches(text, 1, TRUE)
      [] i = 1 -> FencedMatches(text, 1, FALSE)
      [] i = 2 -> SpanMatches(text, "[", "]")
      [] i = 3 -> SpanMatches(text, "{", "}")

PatternCount == 4

Continue == [act |-> "continue", exc |-> "none", questions |-> <<>>]

Return(norm) == [act |-> "return", exc |-> norm.exc, questions |-> norm.questions]

(* `if isinstance(parsed, list) and len(parsed) > 0: return ...` *)
ArrayResult(parsed) ==
    IF parsed.ok /\ parsed.val.k = "array" /\ Len(parsed.val.a) > 0
    THEN Return(normalize_questions(parsed.val))
    ELSE Continue

(* `if isinstance(parsed, dict) and "questions" in parsed: return ...` *)
ObjectResult(parsed) ==
    IF parsed.ok /\ parsed.val.k = "object" /\ "questions" \in DOMAIN parsed.val.o
    THEN Return(normalize_questions(parsed.val.o["questions"]))
    ELSE Continue

(* text[:text.rfind(type) + 1] when the token occurs, else text *)
UpToLast(text, type) ==
    IF RFind(text, type) # 0 THEN SubSeq(text, 1, RFind(text, type)) ELSE text

(* text[text.find(type):] when the token occurs, else text *)
FromFirst(text, type) ==
    IF Find(text, type) # 0 THEN SubSeq(text, Find(text, type), Len(text)) ELSE text

(* the body of `for match in matches`, from clean_match on: return a      *)
(* list, raise, or continue with the next match                           *)
TryCleanMatch(clean_match) ==
    IF StartsWith(clean_match, "[")
    THEN ArrayResult(json_loads(UpToLast(clean_match, "]")))
    ELSE IF StartsWith(clean_match, "{")
    THEN ObjectResult(json_loads(UpToLast(clean_match, "}")))
    ELSE ObjectResult(json_loads(UpToLast(FromFirst(clean_match, "{"), "}")))

TryMatch(match) == TryCleanMatch(StripText(match))

(* the first of two results that returns or raises *)
OrElse(first, rest) == IF first.act = "return" THEN first ELSE rest

RECURSIVE TryMatches(_, _)
TryMatches(matches, m) ==
    IF m > Len(matches) THEN Continue
    ELSE OrElse(TryMatch(matches[m]), TryMatches(matches, m + 1))

RECURSIVE TryPatterns(_, _)
TryPatterns(text, i) ==
    IF i >= PatternCount THEN Continue
    ELSE OrElse(TryMatches(PatternMatches(text, i), 1), TryPatterns(text, i + 1))

(* Strategy 1 on the parsed whole text *)
DirectResult(parsed) ==
    IF parsed.ok /\ parsed.val.k = "array" /\ Len(parsed.val.a) > 0
    THEN Return(normalize_questions(parsed.val))
    ELSE ObjectResult(parsed)

(* AIService._extract_json: act is "return" (questions is the list of the *)
(* returned dict) or "continue" for None; exc names the exception that    *)
(* leaves the call                                                        *)
_extract_json(text) ==
    OrElse(DirectResult(json_loads(StripText(text))), TryPatterns(text, 0))

---------------------------------------------------------------------------
(* Fallback Generator *)

fallback_questions ==
    (<<"W", "e", "l", "l", "n", "e", "s", "s">> :> <<
         [question |-> JStr(<<"W", "h", "i", "c", "h", " ", "o", "f", " ", "t", "h", "e", "s", "e", " ", "i", "s", " ", "r", "e", "c", "o", "m", "m", "e", "n", "d", "e", "d", " ", "f", "o", "r", " ", "b", "e", "t", "t", "e", "r", " ", "s", "l", "e", "e", "p", "?">>),
           options |-> JArr(<< JStr(<<"C", "a", "f", "f", "e", "i", "n", "e", " ", "b", "e", "f", "o", "r", "e", " ", "b", "e", "d">>), JStr(<<"R", "e", "g", "u", "l", "a", "r", " ", "s", "l", "e", "e", "p", " ", "s", "c", "h", "e", "d", "u", "l", "e">>), JStr(<<"S", "c", "r", "e", "e", "n", " ", "t", "i", "m", "e">>), JStr(<<"H", "e", "a", "v", "y", " ", "m", "e", "a", "l", "s">>) >>),
           correct_index |-> JInt(1)],
         [question |-> JStr(<<"W", "h", "a", "t", " ", "i", "s", " ", "m", "i", "n", "d", "f", "u", "l", "n", "e", "s", "s", "?">>),
           options |-> JArr(<< JStr(<<"S", "l", "e", "e", "p", "i", "n", "g", " ", "m", "o", "r", "e">>), JStr(<<"P", "r", "e", "s", "e", "n", "t", " ", "m", "o", "m", "e", "n", "t", " ", "a", "w", "a", "r", "e", "n", "e", "s", "s">>), JStr(<<"M", "u", "l", "t", "i", "t", "a", "s", "k", "i", "n", "g">>), JStr(<<"S", "p", "e", "e", "d", " ", "r", "e", "a", "d", "i", "n", "g">>) >>),
           correct_index |-> JInt(1)],
         [question |-> JStr(<<"H", "o", "w", " ", "m", "u", "c", "h", " ", "w", "a", "t", "e", "r", " ", "s", "h", "o", "u", "l", "d", " ", "a", "d", "u", "l", "t", "s", " ", "d", "r", "i", "n", "k", " ", "d", "a", "i", "l", "y", "?">>),
           options |-> JArr(<< JStr(<<"1", " ", "c", "u", "p">>), JStr(<<"8", " ", "c", "u", "p", "s">>), JStr(<<"2", "0", " ", "c", "u", "p", "s">>), JStr(<<"N", "o", " ", "w", "a", "t", "e", "r", " ", "n", "e", "e", "d", "e", "d">>) >>),
           correct_index |-> JInt(1)],
         [question |-> JStr(<<"W", "h", "i", "c", "h", " ", "a", "c", "t", "i", "v", "i", "t", "y", " ", "r", "e", "d", "u", "c", "e", "s", " ", "s", "t", "r", "e", "s", "s", "?">>),
           options |-> JArr(<< JStr(<<"M", "e", "d", "i", "t", "a", "t", "i", "o", "n">>), JStr(<<"O", "v", "e", "r", "w", "o", "r", "k", "i", "n", "g">>), JStr(<<"S", "k", "i", "p", "p", "i", "n", "g", " ", "m", "e", "a", "l", "s">>), JStr(<<"I", "s", "o", "l", "a", "t", "i", "o", "n">>) >>),
           correct_index |-> JInt(0)],
         [question |-> JStr(<<"W", "h", "a", "t", "'", "s", " ", "a", " ", "b", "e", "n", "e", "f", "i", "t", " ", "o", "f", " ", "r", "e", "g", "u", "l", "a", "r", " ", "e", "x", "e", "r", "c", "i", "s", "e", "?">>),
           options |-> JArr(<< JStr(<<"F", "a", "t", "i", "g", "u", "e">>), JStr(<<"B", "e", "t", "t", "e", "r", " ", "m", "o", "o", "d">>), JStr(<<"W", "e", "i", "g", "h", "t", " ", "g", "a", "i", "n">>), JStr(<<"I", "n", "s", "o", "m", "n", "i", "a">>) >>),
           correct_index |-> JInt(1)] >>)
      @@
    (<<"T", "e", "c", "h", " ", "T", "r", "e", "n", "d", "s">> :> <<
         [question |-> JStr(<<"W", "h", "a", "t", " ", "d", "o", "e", "s", " ", "A", "I", " ", "s", "t", "a", "n", "d", " ", "f", "o", "r", "?">>),
           options |-> JArr(<< JStr(<<"A", "r", "t", "i", "f", "i", "c", "i", "a", "l", " ", "I", "n", "t", "e", "l", "l", "i", "g", "e", "n", "c", "e">>), JStr(<<"A", "u", "t", "o", "m", "a", "t", "e", "d", " ", "I", "n", "t", "e", "r", "n", "e", "t">>), JStr(<<"A", "d", "v", "a", "n", "c", "e", "d", " ", "I", "n", "t", "e", "g", "r", "a", "t", "i", "o", "n">>), JStr(<<"A", "u", "t", "o", " ", "I", "n", "t", "e", "r", "f", "a", "c", "e">>) >>),
           correct_index |-> JInt(0)],
         [question |-> JStr(<<"W", "h", "a", "t", " ", "i", "s", " ", "c", "l", "o", "u", "d", " ", "c", "o", "m", "p", "u", "t", "i", "n", "g", "?">>),
           options |-> JArr(<< JStr(<<"W", "e", "a", "t", "h", "e", "r", " ", "p", "r", "e", "d", "i", "c", "t", "i", "o", "n">>), JStr(<<"R", "e", "m", "o", "t", "e", " ", "d", "a", "t", "a", " ", "s", "t", "o", "r", "a", "g", "e", " ", "a", "n", "d", " ", "p", "r", "o", "c", "e", "s", "s", "i", "n", "g">>), JStr(<<"A", "i", "r", "p", "l", "a", "n", "e", " ", "t", "e", "c", "h", "n", "o", "l", "o", "g", "y">>), JStr(<<"P", "h", "o", "t", "o", "g", "r", "a", "p", "h", "y">>) >>),
           correct_index |-> JInt(1)],
         [question |-> JStr(<<"W", "h", "a", "t", " ", "i", "s", " ", "b", "l", "o", "c", "k", "c", "h", "a", "i", "n", "?">>),
           options |-> JArr(<< JStr(<<"A", " ", "g", "a", "m", "e">>), JStr(<<"D", "i", "s", "t", "r", "i", "b", "u", "t", "e", "d", " ", "l", "e", "d", "g", "e", "r", " ", "t", "e", "c", "h", "n", "o", "l", "o", "g", "y">>), JStr(<<"S", "o", "c", "i", "a", "l", " ", "m", "e", "d", "i", "a">>), JStr(<<"E", "m", "a", "i", "l", " ", "s", "e", "r", "v", "i", "c", "e">>) >>),
           correct_index |-> JInt(1)],
         [question |-> JStr(<<"W", "h", "a", "t", " ", "d", "o", "e", "s", " ", "I", "o", "T", " ", "m", "e", "a", "n", "?">>),
           options |-> JArr(<< JStr(<<"I", "n", "t", "e", "r", "n", "e", "t", " ", "o", "f", " ", "T", "h", "i", "n", "g", "s">>), JStr(<<"I", "n", "p", "u", "t", " ", "o", "f", " ", "T", "e", "x", "t">>), JStr(<<"I", "n", "t", "e", "r", "n", "a", "l", " ", "O", "p", "e", "r", "a", "t", "i", "o", "n", "s">>), JStr(<<"I", "m", "a", "g", "e", " ", "O", "p", "t", "i", "m", "i", "z", "a", "t", "i", "o", "n">>) >>),
           correct_index |-> JInt(0)],
         [question |-> JStr(<<"W", "h", "a", "t", " ", "i", "s", " ", "m", "a", "c", "h", "i", "n", "e", " ", "l", "e", "a", "r", "n", "i", "n", "g", "?">>),
           options |-> JArr(<< JStr(<<"R", "o", "b", "o", "t", " ", "b", "u", "i", "l", "d", "i", "n", "g">>), JStr(<<"A", "I", " ", "l", "e", "a", "r", "n", "i", "n", "g", " ", "f", "r", "o", "m", " ", "d", "a", "t", "a">>), JStr(<<"C", "o", "m", "p", "u", "t", "e", "r", " ", "r", "e", "p", "a", "i", "r">>), JStr(<<"T", "y", "p", "i", "n", "g", " ", "p", "r", "a", "c", "t", "i", "c", "e">>) >>),
           correct_index |-> JInt(1)] >>)
      @@
    (<<"S", "p", "a", "c", "e", " ", "E", "x", "p", "l", "o", "r", "a", "t", "i", "o", "n">> :> <<
         [question |-> JStr(<<"W", "h", "i", "c", "h", " ", "p", "l", "a", "n", "e", "t", " ", "i", "s", " ", "k", "n", "o", "w", "n", " ", "a", "s", " ", "t", "h", "e", " ", "R", "e", "d", " ", "P", "l", "a", "n", "e", "t", "?">>),
           options |-> JArr(<< JStr(<<"V", "e", "n", "u", "s">>), JStr(<<"M", "a", "r", "s">>), JStr(<<"J", "u", "p", "i", "t", "e", "r">>), JStr(<<"S", "a", "t", "u", "r", "n">>) >>),
           correct_index |-> JInt(1)],
         [question |-> JStr(<<"W", "h", "a", "t", " ", "i", "s", " ", "t", "h", "e", " ", "c", "l", "o", "s", "e", "s", "t", " ", "s", "t", "a", "r", " ", "t", "o", " ", "E", "a", "r", "t", "h", "?">>),
           options |-> JArr(<< JStr(<<"P", "o", "l", "a", "r", "i", "s">>), JStr(<<"S", "i", "r", "i", "u", "s">>), JStr(<<"T", "h", "e", " ", "S", "u", "n">>), JStr(<<"A", "l", "p", "h", "a", " ", "C", "e", "n", "t", "a", "u", "r", "i">>) >>),
           correct_index |-> JInt(2)],
         [question |-> JStr(<<"W", "h", "o", " ", "w", "a", "s", " ", "t", "h", "e", " ", "f", "i", "r", "s", "t", " ", "h", "u", "m", "a", "n", " ", "i", "n", " ", "s", "p", "a", "c", "e", "?">>),
           options |-> JArr(<< JStr(<<"N", "e", "i", "l", " ", "A", "r", "m", "s", "t", "r", "o", "n", "g">>), JStr(<<"Y", "u", "r", "i", " ", "G", "a", "g", "a", "r", "i", "n">>), JStr(<<"B", "u", "z", "z", " ", "A", "l", "d", "r", "i", "n">>), JStr(<<"J", "o", "h", "n", " ", "G", "l", "e", "n", "n">>) >>),
           correct_index |-> JInt(1)],
         [question |-> JStr(<<"W", "h", "a", "t", " ", "i", "s", " ", "a", " ", "l", "i", "g", "h", "t", "-", "y", "e", "a", "r", "?">>),
           options |-> JArr(<< JStr(<<"T", "i", "m", "e", " ", "u", "n", "i", "t">>), JStr(<<"D", "i", "s", "t", "a", "n", "c", "e", " ", "u", "n", "i", "t">>), JStr(<<"S", "p", "e", "e", "d", " ", "u", "n", "i", "t">>), JStr(<<"W", "e", "i", "g", "h", "t", " ", "u", "n", "i", "t">>) >>),
           correct_index |-> JInt(1)],
         [question |-> JStr(<<"W", "h", "i", "c", "h", " ", "p", "l", "a", "n", "e", "t", " ", "h", "a", "s", " ", "t", "h", "e", " ", "m", "o", "s", "t", " ", "m", "o", "o", "n", "s", "?">>),
           options |-> JArr(<< JStr(<<"E", "a", "r", "t", "h">>), JStr(<<"M", "a", "r", "s">>), JStr(<<"S", "a", "t", "u", "r", "n">>), JStr(<<"M", "e", "r", "c", "u", "r", "y">>) >>),
           correct_index |-> JInt(2)] >>)
      @@
    (<<"W", "o", "r", "l", "d", " ", "H", "i", "s", "t", "o", "r", "y">> :> <<
         [question |-> JStr(<<"I", "n", " ", "w", "h", "i", "c", "h", " ", "y", "e", "a", "r", " ", "d", "i", "d", " ", "W", "o", "r", "l", "d", " ", "W", "a", "r", " ", "I", "I", " ", "e", "n", "d", "?">>),
           options |-> JArr(<< JStr(<<"1", "9", "4", "3">>), JStr(<<"1", "9", "4", "5">>), JStr(<<"1", "9", "4", "7">>), JStr(<<"1", "9", "5", "0">>) >>),
           correct_index |-> JInt(1)],
         [question |-> JStr(<<"W", "h", "o", " ", "w", "a", "s", " ", "t", "h", "e", " ", "f", "i", "r", "s", "t", " ", "P", "r", "e", "s", "i", "d", "e", "n", "t", " ", "o", "f", " ", "t", "h", "e", " ", "U", "n", "i", "t", "e", "d", " ", "S", "t", "a", "t", "e", "s", "?">>),
           options |-> JArr(<< JStr(<<"A", "b", "r", "a", "h", "a", "m", " ", "L", "i", "n", "c", "o", "l", "n">>), JStr(<<"T", "h", "o", "m", "a", "s", " ", "J", "e", "f", "f", "e", "r", "s", "o", "n">>), JStr(<<"G", "e", "o", "r", "g", "e", " ", "W", "a", "s", "h", "i", "n", "g", "t", "o", "n">>), JStr(<<"J", "o", "h", "n", " ", "A", "d", "a", "m", "s">>) >>),
           correct_index |-> JInt(2)],
         [question |-> JStr(<<"W", "h", "i", "c", "h", " ", "a", "n", "c", "i", "e", "n", "t", " ", "w", "o", "n", "d", "e", "r", " ", "w", "a", "s", " ", "l", "o", "c", "a", "t", "e", "d", " ", "i", "n", " ", "E", "g", "y", "p", "t", "?">>),
           options |-> JArr(<< JStr(<<"C", "o", "l", "o", "s", "s", "u", "s", " ", "o", "f", " ", "R", "h", "o", "d", "e", "s">>), JStr(<<"G", "r", "e", "a", "t", " ", "P", "y", "r", "a", "m", "i", "d", " ", "o", "f", " ", "G", "i", "z", "a">>), JStr(<<"H", "a", "n", "g", "i", "n", "g", " ", "G", "a", "r", "d", "e", "n", "s">>), JStr(<<"T", "e", "m", "p", "l", "e", " ", "o", "f", " ", "A", "r", "t", "e", "m", "i", "s">>) >>),
           correct_index |-> JInt(1)],
         [question |-> JStr(<<"T", "h", "e", " ", "R", "e", "n", "a", "i", "s", "s", "a", "n", "c", "e", " ", "b", "e", "g", "a", "n", " ", "i", "n", " ", "w", "h", "i", "c", "h", " ", "c", "o", "u", "n", "t", "r", "y", "?">>),
           options |-> JArr(<< JStr(<<"F", "r", "a", "n", "c", "e">>), JStr(<<"E", "n", "g", "l", "a", "n", "d">>), JStr(<<"I", "t", "a", "l", "y">>), JStr(<<"S", "p", "a", "i", "n">>) >>),
           correct_index |-> JInt(2)],
         [question |-> JStr(<<"W", "h", "o", " ", "d", "i", "s", "c", "o", "v", "e", "r", "e", "d", " ", "A", "m", "e", "r", "i", "c", "a", " ", "i", "n", " ", "1", "4", "9", "2", "?">>),
           options |-> JArr(<< JStr(<<"V", "a", "s", "c", "o", " ", "d", "a", " ", "G", "a", "m", "a">>), JStr(<<"F", "e", "r", "d", "i", "n", "a", "n", "d", " ", "M", "a", "g", "e", "l", "l", "a", "n">>), JStr(<<"C", "h", "r", "i", "s", "t", "o", "p", "h", "e", "r", " ", "C", "o", "l", "u", "m", "b", "u", "s">>), JStr(<<"A", "m", "e", "r", "i", "g", "o", " ", "V", "e", "s", "p", "u", "c", "c", "i">>) >>),
           correct_index |-> JInt(2)] >>)
      @@
    (<<"S", "c", "i", "e", "n", "c", "e", " ", "&", " ", "N", "a", "t", "u", "r", "e">> :> <<
         [question |-> JStr(<<"W", "h", "a", "t", " ", "i", "s", " ", "t", "h", "e", " ", "c", "h", "e", "m", "i", "c", "a", "l", " ", "s", "y", "m", "b", "o", "l", " ", "f", "o", "r", " ", "w", "a", "t", "e", "r", "?">>),
           options |-> JArr(<< JStr(<<"O", "2">>), JStr(<<"H", "2", "O">>), JStr(<<"C", "O", "2">>), JStr(<<"N", "a", "C", "l">>) >>),
           correct_index |-> JInt(1)],
         [question |-> JStr(<<"W", "h", "a", "t", " ", "i", "s", " ", "t", "h", "e", " ", "l", "a", "r", "g", "e", "s", "t", " ", "o", "r", "g", "a", "n", " ", "i", "n", " ", "t", "h", "e", " ", "h", "u", "m", "a", "n", " ", "b", "o", "d", "y", "?">>),
           options |-> JArr(<< JStr(<<"H", "e", "a", "r", "t">>), JStr(<<"L", "i", "v", "e", "r">>), JStr(<<"S", "k", "i", "n">>), JStr(<<"B", "r", "a", "i", "n">>) >>),
           correct_index |-> JInt(2)],
         [question |-> JStr(<<"W", "h", "a", "t", " ", "g", "a", "s", " ", "d", "o", " ", "p", "l", "a", "n", "t", "s", " ", "a", "b", "s", "o", "r", "b", " ", "f", "r", "o", "m", " ", "t", "h", "e", " ", "a", "i", "r", "?">>),
           options |-> JArr(<< JStr(<<"O", "x", "y", "g", "e", "n">>), JStr(<<"N", "i", "t", "r", "o", "g", "e", "n">>), JStr(<<"C", "a", "r", "b", "o", "n", " ", "D", "i", "o", "x", "i", "d", "e">>), JStr(<<"H", "y", "d", "r", "o", "g", "e", "n">>) >>),
           correct_index |-> JInt(2)],
         [question |-> JStr(<<"W", "h", "a", "t", " ", "i", "s", " ", "t", "h", "e", " ", "h", "a", "r", "d", "e", "s", "t", " ", "n", "a", "t", "u", "r", "a", "l", " ", "s", "u", "b", "s", "t", "a", "n", "c", "e", "?">>),
           options |-> JArr(<< JStr(<<"G", "o", "l", "d">>), JStr(<<"I", "r", "o", "n">>), JStr(<<"D", "i", "a", "m", "o", "n", "d">>), JStr(<<"P", "l", "a", "t", "i", "n", "u", "m">>) >>),
           correct_index |-> JInt(2)],
         [question |-> JStr(<<"H", "o", "w", " ", "m", "a", "n", "y", " ", "b", "o", "n", "e", "s", " ", "a", "r", "e", " ", "i", "n", " ", "t", "h", "e", " ", "a", "d", "u", "l", "t", " ", "h", "u", "m", "a", "n", " ", "b", "o", "d", "y", "?">>),
           options |-> JArr(<< JStr(<<"1", "0", "6">>), JStr(<<"2", "0", "6">>), JStr(<<"3", "0", "6">>), JStr(<<"4", "0", "6">>) >>),
           correct_index |-> JInt(1)] >>)
      @@
    (<<"P", "o", "p", " ", "C", "u", "l", "t", "u", "r", "e">> :> <<
         [question |-> JStr(<<"W", "h", "i", "c", "h", " ", "b", "a", "n", "d", " ", "p", "e", "r", "f", "o", "r", "m", "e", "d", " ", "'", "B", "o", "h", "e", "m", "i", "a", "n", " ", "R", "h", "a", "p", "s", "o", "d", "y", "'", "?">>),
           options |-> JArr(<< JStr(<<"T", "h", "e", " ", "B", "e", "a", "t", "l", "e", "s">>), JStr(<<"Q", "u", "e", "e", "n">>), JStr(<<"L", "e", "d", " ", "Z", "e", "p", "p", "e", "l", "i", "n">>), JStr(<<"P", "i", "n", "k", " ", "F", "l", "o", "y", "d">>) >>),
           correct_index |-> JInt(1)],
         [question |-> JStr(<<"W", "h", "a", "t", " ", "y", "e", "a", "r", " ", "w", "a", "s", " ", "t", "h", "e", " ", "f", "i", "r", "s", "t", " ", "i", "P", "h", "o", "n", "e", " ", "r", "e", "l", "e", "a", "s", "e", "d", "?">>),
           options |-> JArr(<< JStr(<<"2", "0", "0", "5">>), JStr(<<"2", "0", "0", "7">>), JStr(<<"2", "0", "0", "9">>), JStr(<<"2", "0", "1", "0">>) >>),
           correct_index |-> JInt(1)],
         [question |-> JStr(<<"W", "h", "o", " ", "d", "i", "r", "e", "c", "t", "e", "d", " ", "t", "h", "e", " ", "m", "o", "v", "i", "e", " ", "'", "T", "i", "t", "a", "n", "i", "c", "'", "?">>),
           options |-> JArr(<< JStr(<<"S", "t", "e", "v", "e", "n", " ", "S", "p", "i", "e", "l", "b", "e", "r", "g">>), JStr(<<"J", "a", "m", "e", "s", " ", "C", "a", "m", "e", "r", "o", "n">>), JStr(<<"C", "h", "r", "i", "s", "t", "o", "p", "h", "e", "r", " ", "N", "o", "l", "a", "n">>), JStr(<<"M", "a", "r", "t", "i", "n", " ", "S", "c", "o", "r", "s", "e", "s", "e">>) >>),
           correct_index |-> JInt(1)],
         [question |-> JStr(<<"W", "h", "i", "c", "h", " ", "s", "t", "r", "e", "a", "m", "i", "n", "g", " ", "p", "l", "a", "t", "f", "o", "r", "m", " ", "p", "r", "o", "d", "u", "c", "e", "s", " ", "'", "S", "t", "r", "a", "n", "g", "e", "r", " ", "T", "h", "i", "n", "g", "s", "'", "?">>),
           options |-> JArr(<< JStr(<<"A", "m", "a", "z", "o", "n", " ", "P", "r", "i", "m", "e">>), JStr(<<"H", "u", "l", "u">>), JStr(<<"N", "e", "t", "f", "l", "i", "x">>), JStr(<<"D", "i", "s", "n", "e", "y", "+">>) >>),
           correct_index |-> JInt(2)],
         [question |-> JStr(<<"W", "h", "a", "t", " ", "s", "o", "c", "i", "a", "l", " ", "m", "e", "d", "i", "a", " ", "a", "p", "p", " ", "i", "s", " ", "k", "n", "o", "w", "n", " ", "f", "o", "r", " ", "s", "h", "o", "r", "t", " ", "v", "i", "d", "e", "o", "s", "?">>),
           options |-> JArr(<< JStr(<<"F", "a", "c", "e", "b", "o", "o", "k">>), JStr(<<"T", "w", "i", "t", "t", "e", "r">>), JStr(<<"T", "i", "k", "T", "o", "k">>), JStr(<<"L", "i", "n", "k", "e", "d", "I", "n">>) >>),
           correct_index |-> JInt(2)] >>)

default_questions(topic) ==
    << [question |-> JStr(<<"W", "h", "a", "t", " ", "i", "s", " ", "a", " ", "k", "e", "y", " ", "a", "s", "p", "e", "c", "t", " ", "o", "f", " ">> \o topic \o <<"?">>),
        options |-> JArr(<< JStr(<<"K", "n", "o", "w", "l", "e", "d", "g", "e">>), JStr(<<"I", "g", "n", "o", "r", "a", "n", "c", "e">>), JStr(<<"C", "o", "n", "f", "u", "s", "i", "o", "n">>), JStr(<<"N", "o", "n", "e">>) >>),
        correct_index |-> JInt(0)],
       [question |-> JStr(<<"W", "h", "y", " ", "i", "s", " ">> \o topic \o <<" ", "i", "m", "p", "o", "r", "t", "a", "n", "t", "?">>),
        options |-> JArr(<< JStr(<<"P", "e", "r", "s", "o", "n", "a", "l", " ", "g", "r", "o", "w", "t", "h">>), JStr(<<"N", "o", " ", "r", "e", "a", "s", "o", "n">>), JStr(<<"W", "a", "s", "t", "e", " ", "o", "f", " ", "t", "i", "m", "e">>), JStr(<<"H", "a", "r", "m", "f", "u", "l">>) >>),
        correct_index |-> JInt(0)],
       [question |-> JStr(<<"H", "o", "w", " ", "c", "a", "n", " ", "o", "n", "e", " ", "l", "e", "a", "r", "n", " ", "a", "b", "o", "u", "t", " ">> \o topic \o <<"?">>),
        options |-> JArr(<< JStr(<<"R", "e", "a", "d", "i", "n", "g", " ", "a", "n", "d", " ", "p", "r", "a", "c", "t", "i", "c", "e">>), JStr(<<"S", "l", "e", "e", "p", "i", "n", "g">>), JStr(<<"I", "g", "n", "o", "r", "i", "n", "g", " ", "i", "t">>), JStr(<<"R", "u", "n", "n", "i", "n", "g", " ", "a", "w", "a", "y">>) >>),
        correct_index |-> JInt(0)],
       [question |-> JStr(<<"W", "h", "a", "t", " ", "s", "k", "i", "l", "l", " ", "h", "e", "l", "p", "s", " ", "i", "n", " ">> \o topic \o <<"?">>),
        options |-> JArr(<< JStr(<<"C", "r", "i", "t", "i", "c", "a", "l", " ", "t", "h", "i", "n", "k", "i", "n", "g">>), JStr(<<"L", "a", "z", "i", "n", "e", "s", "s">>), JStr(<<"P", "r", "o", "c", "r", "a", "s", "t", "i", "n", "a", "t", "i", "o", "n">>), JStr(<<"D", "e", "n", "i", "a", "l">>) >>),
        correct_index |-> JInt(0)],
       [question |-> JStr(<<"W", "h", "o", " ", "c", "a", "n", " ", "b", "e", "n", "e", "f", "i", "t", " ", "f", "r", "o", "m", " ">> \o topic \o <<"?">>),
        options |-> JArr(<< JStr(<<"E", "v", "e", "r", "y", "o", "n", "e">>), JStr(<<"N", "o", " ", "o", "n", "e">>), JStr(<<"O", "n", "l", "y", " ", "e", "x", "p", "e", "r", "t", "s">>), JStr(<<"O", "n", "l", "y", " ", "c", "h", "i", "l", "d", "r", "e", "n">>) >>),
        correct_index |-> JInt(0)] >>

QuizSize == 5

(* AIService._generate_fallback_question *)
(* mutant of _generate_fallback_question: question_id % 5 for            *)
(* (question_id - 1) % 5                                                  *)
_generate_fallback_question_NoMinusOne(topic, question_id) ==
    LET topic_questions ==
            IF topic \in DOMAIN fallback_questions
            THEN fallback_questions[topic]
            ELSE default_questions(topic)
        idx == question_id % Len(topic_questions)
    IN  topic_questions[idx + 1] @@ [id |-> JInt(question_id)]

_generate_fallback_question(topic, question_id) ==
    LET topic_questions ==
            IF topic \in DOMAIN fallback_questions
            THEN fallback_questions[topic]
            ELSE default_questions(topic)
        idx == (question_id - 1) % Len(topic_questions)
    IN  topic_questions[idx + 1] @@ [id |-> JInt(question_id)]

(* mutant of _generate_fallback_questions: range(0, 5) for range(1, 6) *)
_generate_fallback_questions_FromZero(topic) ==
    [i \in 1..QuizSize |-> _generate_fallback_question(topic, i - 1)]

(* AIService._generate_fallback_questions *)
_generate_fallback_questions(topic) ==
    [i \in 1..QuizSize |-> _generate_fallback_question(topic, i)]

---------------------------------------------------------------------------
(* Quiz Generation Orchestrator *)

(* mutant of max_retries: one attempt more *)
max_retries_OneMore == 3 + 1

max_retries == 3

retry_delay == 2

(* mutant of MinValid: two valid questions are enough *)
MinValid_Two == 3 - 1

MinValid == 3

(* mutant of RetryFollows: a sleep follows the last attempt too *)
RetryFollows_AfterLastToo(attempt_no) == attempt_no < max_retries

(* mutant of RetryFollows: no attempt is followed by another *)
RetryFollows_Never(attempt_no) == attempt_no < 0

(* `if attempt < self.max_retries - 1:` *)
RetryFollows(attempt_no) == attempt_no < max_retries - 1

(* what one call of the model endpoint does: it raises, or it returns a   *)
(* response whose text may be empty                                       *)
TransportException == [kind |-> "exception", text |-> <<>>]

TransportText(text) == [kind |-> "response", text |-> text]

(* AIService._make_request: the text, <<>> for None, or the Exception it  *)
(* raises in place of the transport's                                     *)
_make_request(outcome) ==
    IF outcome.kind = "exception" THEN [exc |-> "Exception", text |-> <<>>]
    ELSE [exc |-> "none", text |-> outcome.text]

(* the loop `for q in questions[:5]`: the valid questions in order, or    *)
(* the exception of the first call of _validate_question that raises      *)
RECURSIVE ValidateEach(_, _, _)
ValidateEach(questions, i, valid_questions) ==
    IF i > Len(questions) THEN [exc |-> "none", valid_questions |-> valid_questions]
    ELSE LET verdict == _validate_question(questions[i])
         IN  IF verdict \in {"True", "False"}
             THEN ValidateEach(questions, i + 1,
                               IF verdict = "True"
                               THEN Append(valid_questions, questions[i])
                               ELSE valid_questions)
             ELSE [exc |-> verdict, valid_questions |-> valid_questions]

(* mutant of FirstFive: the slice [:5] left out *)
FirstFive_NoSlice(questions) == questions

(* mutant of FirstFive: the slice [:6] *)
FirstFive_OneMore(questions) ==
    SubSeq(questions, 1, IF Len(questions) < QuizSize + 1 THEN Len(questions)
                         ELSE QuizSize + 1)

FirstFive(questions) ==
    SubSeq(questions, 1, IF Len(questions) < QuizSize THEN Len(questions) ELSE QuizSize)

(* mutant of PadWithFallback: slot len(valid_questions) for             *)
(* len(valid_questions) + 1                                               *)
RECURSIVE PadWithFallback_SlotBehind(_, _)
PadWithFallback_SlotBehind(valid_questions, topic) ==
    IF Len(valid_questions) < QuizSize
    THEN PadWithFallback_SlotBehind(
            Append(valid_questions,
                   _generate_fallback_question(topic, Len(valid_questions))),
            topic)
    ELSE valid_questions

(* the loop `while len(valid_questions) < 5` *)
RECURSIVE PadWithFallback(_, _)
PadWithFallback(valid_questions, topic) ==
    IF Len(valid_questions) < QuizSize
    THEN PadWithFallback(
            Append(valid_questions,
                   _generate_fallback_question(topic, Len(valid_questions) + 1)),
            topic)
    ELSE valid_questions

(* mutant of CaughtInLoop: only the transport's Exception is caught *)
CaughtInLoop_TransportOnly(exc) == exc = "Exception"

(* the exceptions `except Exception` catches: every class the body raises *)
CaughtInLoop(exc) ==
    exc \in {"Exception", "TypeError", "AttributeError", "OverflowError", "ValueError"}

(* the try body ended without return; collected is len(valid_questions)  *)
(* at that point                                                          *)
NoQuizAfter(exc, collected) ==
    [exc |-> exc, returned |-> FALSE, quiz |-> <<>>, collected |-> collected]

NoQuiz(exc) == NoQuizAfter(exc, 0)

(* `if len(valid_questions) >= 3:` pad, truncate and return *)
AfterValidation(topic, checked) ==
    IF checked.exc # "none"
    THEN NoQuizAfter(checked.exc, Len(checked.valid_questions))
    ELSE IF Len(checked.valid_questions) >= MinValid
    THEN [exc |-> "none", returned |-> TRUE,
          quiz |-> FirstFive(PadWithFallback(checked.valid_questions, topic)),
          collected |-> Len(checked.valid_questions)]
    ELSE NoQuizAfter("none", Len(checked.valid_questions))

(* `if parsed and "questions" in parsed:` validate the first five *)
AfterExtraction(topic, parsed) ==
    IF parsed.exc # "none" THEN NoQuiz(parsed.exc)
    ELSE IF parsed.act # "return" THEN NoQuiz("none")
    ELSE AfterValidation(topic, ValidateEach(FirstFive(parsed.questions), 1, <<>>))

(* `if response:` parse it *)
AfterRequest(topic, response) ==
    IF response.exc # "none" THEN NoQuiz(response.exc)
    ELSE IF response.text = <<>> THEN NoQuiz("none")
    ELSE AfterExtraction(topic, _extract_json(response.text))

(* the try body of one attempt of generate_quiz, given what the transport *)
(* does: it returns a quiz, raises, or falls through to last_error        *)
AttemptBody(topic, outcome) == AfterRequest(topic, _make_request(outcome))

---------------------------------------------------------------------------
(* Inputs: the texts and JSON values the runs below draw from *)

T_France ==
    <<"W", "h", "a", "t", " ", "i", "s", " ", "t", "h", "e", " ", "c", "a", "p", "i", "t", "a", "l", " ", "o", "f", " ", "F", "r", "a", "n", "c", "e", "?">>

T_Ocean ==
    <<"W", "h", "i", "c", "h", " ", "o", "c", "e", "a", "n", " ", "i", "s", " ", "t", "h", "e", " ", "l", "a", "r", "g", "e", "s", "t", " ", "o", "n", " ", "E", "a", "r", "t", "h", "?">>

SampleQuestionTexts ==
    { T_France,
      T_Ocean,
      <<>>,
      <<"O", "K", "?">>,
      <<" ", " ", " ">>,
      <<"W", "h", "a", "t", " ", "i", "s", " ", "a", " ", "S", "Y", "N", "O", "N", "Y", "M", " ", "F", "O", "R", " ", "t", "h", "e", " ", "w", "o", "r", "d", " ", "b", "i", "g", "?">>,
      <<"N", "a", "m", "e", " ", "o", "n", "e", " ", "s", "y", "n", "o", "n", "y", "m", " ", "f", "o", "r", " ", "h", "a", "p", "p", "y">>,
      <<" ", "I", "s", " ", "i", "t", " ", "s", "o", " ", "n", "o", "w", "?", "?", " ">>,
      <<"I", "s", " ", "i", "t", " ", "s", "o", " ", "n", "o", "w", "?", "?", "?">>,
      <<"W", "h", "o", " ", "c", "a", "n", " ", "r", "e", "a", "l", "l", "y", " ", "s", "p", "e", "l", "l", " ">>,
      <<"W", "h", "a", "t", " ", "w", "a", "s", " ", "t", "h", "e", " ", "Q", "3", " ", "r", "e", "v", "e", "n", "u", "e", " ", "o", "f", " ", "A", "p", "p", "l", "e", "?">> }

SampleQuestionValues ==
    { JStr(t) : t \in SampleQuestionTexts }
        \cup { JNull, JBool(TRUE), JBool(FALSE), JInt(0), JInt(42), JFloat(15),
               JArr(<<>>), JArr(<<JInt(1)>>), JObj(<<>>), JObj([k |-> JInt(0)]) }

O_Cities ==
    JArr(<< JStr(<<"P", "a", "r", "i", "s">>), JStr(<<"R", "o", "m", "e">>), JStr(<<"O", "s", "l", "o">>), JStr(<<"B", "e", "r", "n">>) >>)

SampleOptionsValues ==
    { O_Cities,
      JArr(<< JStr(<<"P", "a", "r", "i", "s">>), JStr(<<"R", "o", "m", "e">>), JStr(<<"O", "s", "l", "o">>) >>),
      JArr(<< JStr(<<"P", "a", "r", "i", "s">>), JStr(<<"R", "o", "m", "e">>), JStr(<<"O", "s", "l", "o">>), JStr(<<"B", "e", "r", "n">>),
              JStr(<<"K", "y", "i", "v">>) >>),
      JArr(<< JStr(<<"A">>), JStr(<<"B">>), JStr(<<"C">>), JStr(<<"D">>) >>),
      JArr(<< JStr(<<" ", "A", " ">>), JStr(<<"\t", "D", "D", "\n">>), JStr(<<>>), JStr(<<" ", " ">>) >>),
      JArr(<< JStr(<<"A">>), JStr(<<"B">>), JStr(<<"C">>), JStr(<<"Y", "e", "s">>) >>),
      JArr(<< JInt(1), JInt(2), JInt(3), JInt(4) >>),
      JArr(<< JNull, JInt(1), JInt(2), JInt(3) >>),
      JArr(<< JArr(<<>>), JObj(<<>>), JInt(10), JStr(<<>>) >>),
      JArr(<<>>),
      JStr(<<"a", "b", "c", "d">>),
      JNull,
      JObj([k |-> JInt(0)]) }

MaxIndexValue == 5

SampleIndexValues ==
    { JInt(i) : i \in (-MaxIndexValue)..MaxIndexValue }
        \cup { JFloat(t) : t \in {-10, -5, 0, 5, 27, 30, 39, 40} }
        \cup { JStr(t) : t \in { <<"2">>, <<" ", "3", " ">>, <<"-", "1">>, <<"+", "1">>, <<"4">>,
                                 <<"1", "_", "0">>, <<"0", "_", "3">>, <<"2", ".", "0">>, <<"t", "w", "o">>, <<>> } }
        \cup { JBool(TRUE), JBool(FALSE), JNull, JInf(1), JInf(-1), JNaN,
               JArr(<<>>), JArr(<<JInt(2)>>), JObj(<<>>) }

(* a key the dict does not have *)
Missing == [k |-> "missing", n |-> 0, s |-> <<>>, a |-> <<>>, o |-> <<>>]

(* the dict holding the given keys, a key given as Missing left out *)
MakeDict(fields) == [key \in {f \in DOMAIN fields : fields[f] # Missing} |-> fields[key]]

ValidatorInputs ==
    { MakeDict([id |-> id, question |-> q, options |-> o, correct_index |-> ci,
                correctIndex |-> cI]) :
        id \in {Missing, JInt(1)},
        q \in SampleQuestionValues \cup {Missing},
        o \in SampleOptionsValues \cup {Missing},
        ci \in SampleIndexValues \cup {Missing},
        cI \in {Missing, JInt(1)} }

---------------------------------------------------------------------------
(* Inputs of generate_quiz: topics and what the model endpoint answers *)

Topic_WorldHistory ==
    <<"W", "o", "r", "l", "d", " ", "H", "i", "s", "t", "o", "r", "y">>

Topic_History ==
    <<"H", "i", "s", "t", "o", "r", "y">>

Topics == {Topic_WorldHistory, Topic_History}

(* json.dumps of a value, without whitespace *)
RECURSIVE Dumps(_)
RECURSIVE DumpsAll(_, _)
RECURSIVE DumpsMembers(_, _)
Dumps(v) ==
    IF v.k = "array" THEN <<Lx("[")>> \o DumpsAll(v.a, 1) \o <<Lx("]")>>
    ELSE IF v.k = "object" THEN
        <<Lx("{")>> \o DumpsMembers(v.o, KeySeq(DOMAIN v.o)) \o <<Lx("}")>>
    ELSE <<Lit(v)>>

DumpsAll(elems, i) ==
    IF i > Len(elems) THEN <<>>
    ELSE Dumps(elems[i])
            \o (IF i < Len(elems) THEN <<Lx(",")>> ELSE <<>>)
            \o DumpsAll(elems, i + 1)

DumpsMembers(dict, keys) ==
    IF keys = <<>> THEN <<>>
    ELSE <<Key(Head(keys)), Lx(":")>> \o Dumps(dict[Head(keys)])
            \o (IF Len(keys) > 1 THEN <<Lx(",")>> ELSE <<>>)
            \o DumpsMembers(dict, Tail(keys))

(* question records as the model endpoint writes them *)
R_Valid ==
    JObj([question |-> JStr(T_France), options |-> O_Cities, correctIndex |-> JInt(2)])

R_ValidOwnId ==
    JObj([id |-> JInt(9), question |-> JStr(T_Ocean), options |-> O_Cities,
          correct_index |-> JStr(<<"2">>)])

R_Short ==
    JObj([question |-> JStr(<<"O", "K", "?">>), options |-> O_Cities, correctIndex |-> JInt(0)])

R_NumberQuestion ==
    JObj([question |-> JInt(42), options |-> O_Cities, correctIndex |-> JInt(1)])

(* a record that names no correct answer under either spelling *)
R_NoIndex ==
    JObj([question |-> JStr(<<"H", "o", "w", " ", "m", "a", "n", "y", " ", "l", "e", "g", "s", " ", "d", "o", "e", "s", " ", "a", " ", "s", "p", "i", "d", "e", "r", " ", "h", "a", "v", "e", "?">>),
          options |-> O_Cities])

RecordPool == {R_Valid, R_Short}

WidePool == {R_Valid, R_NumberQuestion, R_ValidOwnId}

MaxCands == 6

MaxWideCands == 4

RECURSIVE ListsUpTo(_, _)
ListsUpTo(pool, len) ==
    IF len = 0 THEN {<<>>}
    ELSE LET shorter == ListsUpTo(pool, len - 1)
         IN  shorter \cup { Append(l, r) : l \in {x \in shorter : Len(x) = len - 1},
                                           r \in pool }

CandidateLists == ListsUpTo(RecordPool, MaxCands) \cup ListsUpTo(WidePool, MaxWideCands)

Prose ==
    << Word(<<"H", "e", "r", "e">>), Lx("ws"), Word(<<"y", "o", "u">>), Lx("ws"), Word(<<"g", "o">>), Lx("ws") >>

ResponseTexts ==
    { Dumps(JArr(l)) : l \in CandidateLists }
        \cup { Prose,
               <<Lx("ws")>>,
               <<Lit(JInt(5))>>,
               Dumps(JObj([questions |-> JInt(5)])),
               Dumps(JObj([questions |-> JNull])),
               Dumps(JObj([questions |-> JStr(<<"a", "b", "c">>)])),
               Dumps(JArr(<<R_NoIndex, R_NoIndex, R_NoIndex>>)),
               Dumps(JArr(<<R_Valid, R_NoIndex, R_Short, R_Valid>>)),
               Dumps(JObj([quiz |-> JArr(<<R_Valid, R_Valid, R_Valid>>)])),
               Dumps(JObj([questions |-> JArr(<<R_Valid, R_Valid, R_ValidOwnId>>)])),
               Prose \o Dumps(JArr(<<R_Valid, R_Short, R_Valid, R_Valid>>)),
               Prose \o <<Lx("fence"), W_json, Lx("ws")>>
                     \o Dumps(JArr(<<R_Valid, R_Valid, R_Valid, R_Valid, R_Valid>>))
                     \o <<Lx("ws"), Lx("fence"), Lx("ws")>> \o Prose,
               Prose \o <<Lx("fence"), Lx("ws")>>
                     \o Dumps(JObj([questions |-> JArr(<<R_Valid, R_Valid, R_Valid>>)]))
                     \o <<Lx("ws"), Lx("fence")>>,
               SubSeq(Dumps(JArr(<<R_Valid, R_Valid, R_Valid>>)), 1, 50) }

TransportOutcomes ==
    {TransportException, TransportText(<<>>)}
        \cup { TransportText(text) : text \in ResponseTexts }

---------------------------------------------------------------------------
(* generate_quiz runs: one call of generate_quiz(topic) *)

NoResponse == [kind |-> "none", text |-> <<>>]

(* _validate_question is not called on its own during a quiz run *)
ValidatorIdle ==
    /\ v_question = <<>>
    /\ v_verdict = "idle"

(* _extract_json is not called on its own *)
ParserIdle ==
    /\ p_text = <<>>
    /\ p_outcome = [act |-> "idle", exc |-> "none", questions |-> <<>>]

(* _generate_fallback_question is not called on its own *)
FallbackIdle ==
    /\ g_topic = <<>>
    /\ g_slot = 0
    /\ g_question = <<>>

(* generate_feedback is not called *)
FeedbackIdle ==
    /\ fb_pc = "idle"
    /\ fb_score = 0
    /\ fb_total = 0
    /\ fb_topic = <<>>
    /\ fb_calls = 0
    /\ fb_sleeps = 0
    /\ fb_response = NoResponse
    /\ fb_source = "none"
    /\ fb_result = <<>>
    /\ fb_raised = "none"

MaxRequests == 3

(* get_ai_service is not called: the global still holds None *)
ServiceIdle ==
    /\ _ai_service = 0
    /\ s_pc = [r \in 1..MaxRequests |-> "idle"]
    /\ s_local = [r \in 1..MaxRequests |-> 0]
    /\ s_got = [r \in 1..MaxRequests |-> 0]
    /\ s_built = 0
    /\ s_writes = 0

InitQuiz ==
    /\ quiz_topic \in Topics
    /\ pc = "request"
    /\ attempt = 0
    /\ last_error = "None"
    /\ transport_calls = 0
    /\ in_flight = 0
    /\ sleeps = 0
    /\ slept = 0
    /\ last_response = NoResponse
    /\ result = <<>>
    /\ raised = "none"
    /\ failed_attempts = 0
    /\ dropped_valid = FALSE
    /\ ValidatorIdle
    /\ ParserIdle
    /\ FallbackIdle
    /\ FeedbackIdle
    /\ ServiceIdle

(* self.model.generate_content(...) is called *)
SendRequest ==
    /\ pc = "request"
    /\ pc' = "await"
    /\ transport_calls' = transport_calls + 1
    /\ in_flight' = in_flight + 1
    /\ last_response' = NoResponse
    /\ UNCHANGED <<quiz_topic, attempt, last_error, sleeps, slept, result, raised,
                   failed_attempts, dropped_valid>>
    /\ UNCHANGED <<validatorVars, parserVars, fallbackVars, feedbackVars, serviceVars>>

(* the rest of the loop body after the try body: return, or record the   *)
(* error and go on to the sleep or to the end of the loop                 *)
EndAttempt(body) ==
    IF body.returned THEN
        /\ pc' = "returned"
        /\ result' = body.quiz
        /\ UNCHANGED <<last_error, raised, failed_attempts, dropped_valid>>
    ELSE IF body.exc # "none" /\ ~CaughtInLoop(body.exc) THEN
        /\ pc' = "raised"
        /\ raised' = body.exc
        /\ UNCHANGED <<last_error, result, failed_attempts, dropped_valid>>
    ELSE
        /\ last_error' = IF body.exc = "none"
                          THEN "Could not parse valid questions from AI response"
                          ELSE "str(e)"
        /\ failed_attempts' = failed_attempts + 1
        /\ dropped_valid' = (dropped_valid \/ body.collected > 0)
        /\ pc' = IF RetryFollows(attempt) THEN "sleep" ELSE "exhausted"
        /\ UNCHANGED <<result, raised>>

(* the call of the model endpoint ends, and the loop body runs up to the  *)
(* sleep                                                                  *)
ReceiveResponse(outcome) ==
    /\ pc = "await"
    /\ in_flight' = in_flight - 1
    /\ last_response' = outcome
    /\ EndAttempt(AttemptBody(quiz_topic, outcome))
    /\ UNCHANGED <<quiz_topic, attempt, transport_calls, sleeps, slept>>
    /\ UNCHANGED <<validatorVars, parserVars, fallbackVars, feedbackVars, serviceVars>>

(* time.sleep(self.retry_delay), then the next round of the loop *)
Sleep ==
    /\ pc = "sleep"
    /\ sleeps' = sleeps + 1
    /\ slept' = slept + retry_delay
    /\ attempt' = attempt + 1
    /\ pc' = "request"
    /\ UNCHANGED <<quiz_topic, last_error, transport_calls, in_flight, last_response,
                   result, raised, failed_attempts, dropped_valid>>
    /\ UNCHANGED <<validatorVars, parserVars, fallbackVars, feedbackVars, serviceVars>>

(* the loop is over: return self._generate_fallback_questions(topic) *)
ReturnFallback ==
    /\ pc = "exhausted"
    /\ result' = _generate_fallback_questions(quiz_topic)
    /\ pc' = "returned"
    /\ UNCHANGED <<quiz_topic, attempt, last_error, transport_calls, in_flight, sleeps, slept,
                   last_response, raised, failed_attempts, dropped_valid>>
    /\ UNCHANGED <<validatorVars, parserVars, fallbackVars, feedbackVars, serviceVars>>

NextQuiz ==
    \/ SendRequest
    \/ \E outcome \in TransportOutcomes : ReceiveResponse(outcome)
    \/ Sleep
    \/ ReturnFallback

Spec == InitQuiz /\ [][NextQuiz]_vars

---------------------------------------------------------------------------
(* Properties of generate_quiz, checked under Spec *)

CandidateKeys == {"id", "question", "options", "correct_index"}

(* a dict of the shape normalize_questions builds *)
IsCandidate(d) == DOMAIN d = CandidateKeys

(* the Validator rules as the specification states them, for a candidate  *)
(* whose question is a str                                                *)
IndexInRange(v) == v.k # "null" /\ PyInt(v).exc = "none" /\ PyInt(v).val \in 0..3

RulesReject(c) ==
    \/ Len(Strip(c["question"].s)) < 15
    \/ \E pattern \in low_quality_patterns :
            Contains(pattern, Lower(Strip(c["question"].s)))
    \/ c["options"].k # "array"
    \/ Len(c["options"].a) # 4
    \/ \A i \in 1..Len(c["options"].a) : Len(Strip(PyStr(c["options"].a[i]))) <= 2
    \/ ~IndexInRange(c["correct_index"])

SatisfiesRules(c) == IsCandidate(c) /\ c["question"].k = "str" /\ ~RulesReject(c)

(* the candidate list the Parser hands over for a transport outcome,      *)
(* <<>> when there is none                                                *)
ParsedFrom(extracted) ==
    IF extracted.act = "return" /\ extracted.exc = "none" THEN extracted.questions
    ELSE <<>>

ParsedOf(outcome) ==
    IF outcome.kind = "response" /\ outcome.text # <<>>
    THEN ParsedFrom(_extract_json(outcome.text))
    ELSE <<>>

IsValidForCode(q) == _validate_question(q) = "True"

(* the call returned from an accepted attempt: its last transport call   *)
(* did not end in a failed attempt                                        *)
Accepted == pc = "returned" /\ failed_attempts < transport_calls

(* C1: whatever the topic and the transport outcomes, the list            *)
(* generate_quiz returns holds exactly 5 question records (and nothing is *)
(* returned before the call returns)                                      *)
C1_ExactlyFive ==
    /\ pc = "returned" =>
        /\ Len(result) = 5
        /\ \A i \in 1..Len(result) : IsCandidate(result[i])
    /\ pc # "returned" => result = <<>>

(* C1 witness: an accepted response that held more than 5 candidates *)
C1_Witness == Accepted /\ Len(ParsedOf(last_response)) > 5

(* C2: no exception leaves generate_quiz, whether the transport raises,   *)
(* the response is empty or parsing or validation raises; the call goes   *)
(* on and what it returns is a quiz                                       *)
C2_NeverRaises ==
    /\ raised = "none"
    /\ pc \in {"request", "await", "sleep", "exhausted", "returned"}
    /\ pc = "returned" => result # <<>>

(* C2 witness: the call returned although its last attempt raised while   *)
(* the response was parsed or validated                                   *)
C2_Witness ==
    /\ pc = "returned"
    /\ last_response.kind = "response"
    /\ AttemptBody(quiz_topic, last_response).exc \in {"TypeError", "AttributeError"}

(* C3: a call makes at least 1 and at most 3 transport calls, one at a    *)
(* time, each after all earlier ones ended in a failed attempt            *)
C3_OneToThreeCalls ==
    /\ transport_calls \in 0..3
    /\ pc = "returned" => transport_calls >= 1
    /\ in_flight \in 0..1
    /\ in_flight = 1 => failed_attempts = transport_calls - 1
    /\ in_flight = 0 => failed_attempts \in {transport_calls - 1, transport_calls}
    /\ (in_flight = 0 /\ failed_attempts = transport_calls - 1) => pc = "returned"

(* C3 witness: the third transport call is in flight after two failures *)
C3_Witness == in_flight = 1 /\ transport_calls = 3 /\ failed_attempts = 2

(* C4: an attempt whose first 5 candidates hold at least 3 that satisfy   *)
(* the Validator rules is accepted as final: the call has returned from   *)
(* it, so no transport call and no sleep follow                           *)
C4_ThreeValidIsFinal ==
    Len(SelectSeq(FirstFive(ParsedOf(last_response)), SatisfiesRules)) >= 3
        => Accepted

(* C5: an accepted attempt with k valid candidates returns them in order  *)
(* at positions 1..k, then the fallback questions of slots k+1..5         *)
C5_ValidThenFallback ==
    Accepted =>
        LET valid == SelectSeq(FirstFive(ParsedOf(last_response)), IsValidForCode)
        IN  /\ Len(valid) \in 3..5
            /\ result = [i \in 1..5 |->
                            IF i <= Len(valid) THEN valid[i]
                            ELSE _generate_fallback_question(quiz_topic, i)]

(* C5 witness: accepted with exactly 3 valid candidates, the first        *)
(* candidate of the list not among them                                   *)
C5_Witness ==
    /\ Accepted
    /\ Len(SelectSeq(FirstFive(ParsedOf(last_response)), IsValidForCode)) = 3
    /\ ~IsValidForCode(ParsedOf(last_response)[1])

T_KeyAspectOfHistory ==
    <<"W", "h", "a", "t", " ", "i", "s", " ", "a", " ", "k", "e", "y", " ", "a", "s", "p", "e", "c", "t", " ", "o", "f", " ", "H", "i", "s", "t", "o", "r", "y", "?">>

T_WorldWarII ==
    <<"I", "n", " ", "w", "h", "i", "c", "h", " ", "y", "e", "a", "r", " ", "d", "i", "d", " ", "W", "o", "r", "l", "d", " ", "W", "a", "r", " ", "I", "I", " ", "e", "n", "d", "?">>

(* C6: after 3 failed attempts the call returns the fallback questions of *)
(* slots 1..5 of the topic, in that order, and nothing else               *)
C6_AllFallback ==
    /\ failed_attempts = 3 => pc \in {"exhausted", "returned"}
    /\ (pc = "returned" /\ failed_attempts = 3) =>
        /\ result = [i \in 1..5 |-> _generate_fallback_question(quiz_topic, i)]
        /\ quiz_topic = Topic_History =>
                result[1]["question"] = JStr(T_KeyAspectOfHistory)
        /\ quiz_topic = Topic_WorldHistory =>
                result[1]["question"] = JStr(T_WorldWarII)

(* C6 witness: returned after 3 failures, the last a response with valid  *)
(* candidates, too few of them                                            *)
C6_Witness ==
    /\ pc = "returned"
    /\ failed_attempts = 3
    /\ Len(SelectSeq(FirstFive(ParsedOf(last_response)), IsValidForCode)) \in 1..2

(* C7: the entry at position i of a returned quiz carries id i *)
C7_NumberedOneToFive ==
    pc = "returned" => \A i \in 1..Len(result) : result[i]["id"] = JInt(i)

(* C8: every record of a returned quiz has exactly 4 options and a        *)
(* correct_index that is an integer in [0,3]                              *)
C8_FourOptionsIntIndex ==
    pc = "returned" =>
        \A i \in 1..Len(result) :
            /\ result[i]["options"].k = "array"
            /\ Len(result[i]["options"].a) = 4
            /\ result[i]["correct_index"].k = "int"
            /\ result[i]["correct_index"].n \in 0..3

(* C17: every failed attempt but the 3rd is followed by one wait of 2     *)
(* time units before the next transport call, and no wait follows the     *)
(* 3rd failed attempt or an accepted one: the waits number the transport  *)
(* calls minus 1                                                          *)
C17_WaitBetweenAttempts ==
    /\ slept = 2 * sleeps
    /\ sleeps \in 0..2
    /\ pc = "request" => (sleeps = transport_calls /\ failed_attempts = transport_calls)
    /\ pc \in {"await", "sleep", "exhausted", "returned"} => sleeps = transport_calls - 1
    /\ pc = "sleep" => (failed_attempts = transport_calls /\ failed_attempts < 3)
    /\ pc = "exhausted" => (failed_attempts = 3 /\ sleeps = 2)

(* C17 witness: all 3 attempts failed and the call returned after 2 waits *)
C17_Witness ==
    /\ pc = "returned"
    /\ failed_attempts = 3
    /\ sleeps = 2
    /\ slept = 4

(* the way an attempt failed, "none" when it did not fail in one of the   *)
(* four ways                                                              *)
ShortfallAmong(candidates) ==
    /\ \A i \in 1..Len(candidates) :
            _validate_question(candidates[i]) \in {"True", "False"}
    /\ Len(SelectSeq(candidates, IsValidForCode)) < 3

ParseFailureKind(extracted) ==
    IF extracted.exc # "none" THEN "none"
    ELSE IF extracted.act # "return" THEN "extraction failure"
    ELSE IF ShortfallAmong(FirstFive(extracted.questions)) THEN "validation shortfall"
    ELSE "none"

FailureKind(outcome) ==
    IF outcome.kind = "exception" THEN "transport failure"
    ELSE IF outcome.kind # "response" THEN "none"
    ELSE IF outcome.text = <<>> THEN "empty response"
    ELSE ParseFailureKind(_extract_json(outcome.text))

(* C18: whichever way attempt n < 3 fails (transport failure, empty       *)
(* response, extraction failure, validation shortfall) the call does not  *)
(* return but waits and makes attempt n + 1; the all-fallback quiz comes  *)
(* back only after exactly 3 failed attempts                              *)
C18_EveryFailureRetried ==
    /\ [](/\ (FailureKind(last_response) # "none" /\ failed_attempts < 3)
                => (pc \in {"sleep", "request"} /\ result = <<>>)
          /\ (pc = "returned" /\ result = _generate_fallback_questions(quiz_topic))
                => (failed_attempts = 3 /\ transport_calls = 3))
    /\ [][/\ pc = "sleep" => pc' = "request"
          /\ pc = "request" => (pc' = "await" /\ transport_calls' = transport_calls + 1)
         ]_vars

(* C18 witness: the second attempt ended in a validation shortfall and    *)
(* the call goes on                                                       *)
C18_Witness ==
    /\ pc = "sleep"
    /\ failed_attempts = 2
    /\ FailureKind(last_response) = "validation shortfall"

(* the positions of a returned quiz that do not hold the fallback         *)
(* question of their slot                                                 *)
ModelEntries ==
    { i \in 1..Len(result) : result[i] # _generate_fallback_question(quiz_topic, i) }

(* C19: a returned quiz holds 0 or 3 to 5 entries taken from a model      *)
(* response, all of them candidates of the accepted attempt's response    *)
C19_NoPartialUse ==
    pc = "returned" =>
        LET candidates == ParsedOf(last_response)
        IN  /\ Cardinality(ModelEntries) \in {0, 3, 4, 5}
            /\ ~Accepted => ModelEntries = {}
            /\ Accepted =>
                    \A i \in ModelEntries :
                        \E j \in 1..Len(candidates) : result[i] = candidates[j]

(* C19 witness: an attempt was accepted with 3 valid candidates after an  *)
(* earlier attempt had been given up with valid candidates collected      *)
C19_Witness ==
    /\ Accepted
    /\ dropped_valid
    /\ failed_attempts = 2
    /\ Cardinality(ModelEntries) = 3

(* C20: candidates at position 6 and later are neither validated nor      *)
(* returned: fewer than 3 valid candidates among the first 5 fail the     *)
(* attempt however many valid ones follow                                 *)
C20_TruncateBeforeFilter ==
    last_response.kind = "response" =>
        LET candidates == ParsedOf(last_response)
        IN  /\ Len(SelectSeq(FirstFive(candidates), IsValidForCode)) < 3
                    => (~Accepted /\ failed_attempts >= 1)
            /\ Accepted =>
                    \A i \in 1..Len(result) :
                        \A j \in 6..Len(candidates) :
                            candidates[j]["id"] = JInt(j) => result[i] # candidates[j]

(* C20 witness: an attempt failed on 6 candidates of which 3 are valid,   *)
(* the 6th among them                                                     *)
C20_Witness ==
    /\ pc = "sleep"
    /\ Len(ParsedOf(last_response)) = 6
    /\ FailureKind(last_response) = "validation shortfall"
    /\ IsValidForCode(ParsedOf(last_response)[6])
    /\ Len(SelectSeq(ParsedOf(last_response), IsValidForCode)) = 3

---------------------------------------------------------------------------
(* Validator runs: one call of _validate_question on one dict *)

QuizIdle ==
    /\ quiz_topic = <<>>
    /\ pc = "idle"
    /\ attempt = 0
    /\ last_error = "None"
    /\ transport_calls = 0
    /\ in_flight = 0
    /\ sleeps = 0
    /\ slept = 0
    /\ last_response = NoResponse
    /\ result = <<>>
    /\ raised = "none"
    /\ failed_attempts = 0
    /\ dropped_valid = FALSE

InitValidator ==
    /\ v_question \in ValidatorInputs
    /\ v_verdict = "pending"
    /\ QuizIdle
    /\ ParserIdle
    /\ FallbackIdle
    /\ FeedbackIdle
    /\ ServiceIdle

ValidateQuestion ==
    /\ v_verdict = "pending"
    /\ v_verdict' = _validate_question(v_question)
    /\ UNCHANGED v_question
    /\ UNCHANGED <<quizVars, parserVars, fallbackVars, feedbackVars, serviceVars>>

NextValidator == ValidateQuestion

SpecValidator == InitValidator /\ [][NextValidator]_vars

---------------------------------------------------------------------------
(* Properties of _validate_question, checked under SpecValidator *)

(* C9: for a candidate whose question is a str, the Validator rejects     *)
(* exactly when one of the stated rules rejects, and accepts otherwise    *)
C9_RejectsExactlyByRules ==
    (v_verdict # "pending" /\ IsCandidate(v_question)
            /\ v_question["question"].k = "str")
        => v_verdict = (IF RulesReject(v_question) THEN "False" ELSE "True")

(* C10: for every candidate the Parser can hand over, the Validator       *)
(* returns a verdict, accept or reject, and does not raise                *)
C10_ValidatorTotal ==
    (v_verdict # "pending" /\ IsCandidate(v_question))
        => v_verdict \in {"True", "False"}


---------------------------------------------------------------------------
(* Parser runs: one call of _extract_json on one response text *)

MaxPieces == 2

MaxMixed == 3

(* the response texts of the Parser runs: those of the quiz runs, texts   *)
(* in which whole-text JSON, tagged and untagged fenced blocks and bare   *)
(* JSON stand side by side, with or without prose around them, and       *)
(* arrays that mix records of either key spelling with other elements     *)
ParserTexts ==
    LET Fenced(tag, body) ==
            <<Lx("fence")>> \o tag \o <<Lx("ws")>> \o body \o <<Lx("ws"), Lx("fence")>>
        Bodies ==
            { Dumps(JArr(<<R_Valid, R_Valid, R_Valid>>)),
              Dumps(JObj([questions |-> JArr(<<R_ValidOwnId>>)])),
              SubSeq(Dumps(JArr(<<R_Valid, R_Valid>>)), 1, 30),
              Dumps(JObj([quiz |-> JArr(<<R_Short>>)])),
              Dumps(JArr(<<>>)) }
        Pieces ==
            Bodies \cup { Fenced(<<W_json>>, b) : b \in Bodies }
                   \cup { Fenced(<<>>, b) : b \in Bodies }
        RECURSIVE Lines(_)
        Lines(parts) ==
            IF parts = <<>> THEN <<>>
            ELSE IF Len(parts) = 1 THEN parts[1]
            ELSE parts[1] \o <<Lx("ws")>> \o Lines(Tail(parts))
        R_BothIndexes ==
            JObj([question |-> JStr(T_Ocean), options |-> O_Cities,
                  correct_index |-> JInt(1), correctIndex |-> JInt(3)])
        MixedPool ==
            { R_Valid, R_ValidOwnId, R_BothIndexes, R_NoIndex,
              JInt(5), JNull, JArr(<<R_Valid>>) }
    IN  ResponseTexts
            \cup { before \o Lines(parts) \o after :
                        before \in {<<>>, Prose},
                        parts \in ListsUpTo(Pieces, MaxPieces),
                        after \in {<<>>, <<Lx("ws")>> \o Prose} }
            \cup { Dumps(JArr(l)) : l \in ListsUpTo(MixedPool, MaxMixed) }
            \cup { Dumps(JObj([questions |-> JArr(l)])) :
                        l \in ListsUpTo(MixedPool, MaxMixed) }

InitParser ==
    /\ p_text \in ParserTexts \cup {<<>>}
    /\ p_outcome = [act |-> "pending", exc |-> "none", questions |-> <<>>]
    /\ QuizIdle
    /\ ValidatorIdle
    /\ FallbackIdle
    /\ FeedbackIdle
    /\ ServiceIdle

ExtractJson ==
    /\ p_outcome.act = "pending"
    /\ p_outcome' = _extract_json(p_text)
    /\ UNCHANGED p_text
    /\ UNCHANGED <<quizVars, validatorVars, fallbackVars, feedbackVars, serviceVars>>

NextParser == ExtractJson

SpecParser == InitParser /\ [][NextParser]_vars

(* C11: for every response text _extract_json ends with a normalized      *)
(* candidate list or with "no match" (None); it does not raise            *)
C11_ParserTotal ==
    p_outcome.act \notin {"idle", "pending"}
        => /\ p_outcome.exc = "none"
           /\ p_outcome.act \in {"return", "continue"}

(* what each strategy hands to json.loads, in the order the claim gives:  *)
(* the stripped whole text, the tagged fenced blocks, the untagged fenced *)
(* blocks, the bracketed span, the braced span                            *)
StrategyContents(text) ==
    <<StripText(text)>>
        \o FencedMatches(text, 1, TRUE)
        \o FencedMatches(text, 1, FALSE)
        \o SpanMatches(text, "[", "]")
        \o SpanMatches(text, "{", "}")

(* JSON that is a non-empty array or an object containing "questions" *)
ParsesAcceptably(content) ==
    LET parsed == json_loads(content)
    IN  /\ parsed.ok
        /\ \/ parsed.val.k = "array" /\ Len(parsed.val.a) > 0
           \/ parsed.val.k = "object" /\ "questions" \in DOMAIN parsed.val.o

(* position m of the strategy contents yields nothing: the whole text is  *)
(* not acceptable JSON, a match holds no acceptable JSON anywhere         *)
YieldsNothing(contents, m) ==
    IF m = 1 THEN ~ParsesAcceptably(contents[1])
    ELSE _extract_json(contents[m]) = Continue

(* C21: the strategies are tried in the fixed priority order whole text,  *)
(* tagged fenced blocks, untagged fenced blocks, bracketed span, braced   *)
(* span, the matches of a pattern in text order; the call ends with the   *)
(* outcome of the first content that parses acceptably, whatever later    *)
(* contents hold, and with "no match" when every content yields nothing   *)
C21_FirstSuccessWins ==
    p_outcome.act \in {"return", "continue"} =>
        LET contents == StrategyContents(p_text)
            nothing == [m \in 1..Len(contents) |-> YieldsNothing(contents, m)]
        IN  /\ \A k \in 1..Len(contents) :
                    (/\ \A m \in 1..(k - 1) : nothing[m]
                     /\ ParsesAcceptably(contents[k]))
                        => p_outcome = DirectResult(json_loads(contents[k]))
            /\ (\A m \in 1..Len(contents) : nothing[m]) => p_outcome = Continue

(* C21 witness: prose around an untagged fenced block of acceptable JSON  *)
(* followed by a tagged one; the tagged block's content alone is returned *)
C21_Witness ==
    /\ p_outcome.act = "return"
    /\ p_text # <<>>
    /\ p_text[1].t = "word"
    /\ LET tagged == FencedMatches(p_text, 1, TRUE)
           untagged == FencedMatches(p_text, 1, FALSE)
       IN  /\ tagged # <<>>
           /\ untagged # <<>>
           /\ ParsesAcceptably(untagged[1])
           /\ ParsesAcceptably(tagged[1])
           /\ p_outcome = DirectResult(json_loads(tagged[1]))
           /\ p_outcome # DirectResult(json_loads(untagged[1]))

(* the array a whole-text response was parsed to: the text itself when it *)
(* is a non-empty array, the "questions" array of a whole-text object     *)
SourceArray(text) ==
    LET parsed == json_loads(StripText(text))
    IN  IF parsed.ok /\ parsed.val.k = "array" /\ Len(parsed.val.a) > 0
        THEN [known |-> TRUE, elems |-> parsed.val.a]
        ELSE IF /\ parsed.ok
                /\ parsed.val.k = "object"
                /\ "questions" \in DOMAIN parsed.val.o
                /\ parsed.val.o["questions"].k = "array"
        THEN [known |-> TRUE, elems |-> parsed.val.o["questions"].a]
        ELSE [known |-> FALSE, elems |-> <<>>]

(* the positions of the objects of an array, ascending *)
ObjectPositions(elems) ==
    LET IsObject(j) == elems[j].k = "object"
    IN  SelectSeq([j \in 1..Len(elems) |-> j], IsObject)

(* C22: every returned candidate has exactly the fields id, question,     *)
(* options and correct_index; the candidates are the objects of the       *)
(* parsed array in order (other elements yield none), correct_index is    *)
(* the record's correct_index when present and otherwise its              *)
(* correctIndex, id is the record's own id when present and otherwise the *)
(* record's 1-based position in the parsed array                          *)
C22_Normalized ==
    (p_outcome.act = "return" /\ p_outcome.exc = "none") =>
        /\ \A n \in 1..Len(p_outcome.questions) :
                DOMAIN p_outcome.questions[n] = CandidateKeys
        /\ LET source == SourceArray(p_text)
               positions == ObjectPositions(source.elems)
           IN  source.known =>
                /\ Len(p_outcome.questions) = Len(positions)
                /\ \A n \in 1..Len(positions) :
                    LET record == source.elems[positions[n]].o
                        candidate == p_outcome.questions[n]
                    IN  /\ candidate.id = IF "id" \in DOMAIN record THEN record["id"]
                                          ELSE JInt(positions[n])
                        /\ "correct_index" \in DOMAIN record
                                => candidate.correct_index = record["correct_index"]
                        /\ ("correct_index" \notin DOMAIN record
                                /\ "correctIndex" \in DOMAIN record)
                                => candidate.correct_index = record["correctIndex"]

(* C22 witness: a returned list from an array that holds an element that  *)
(* is no object ahead of a record without id, and a record that carries   *)
(* both spellings of the index                                            *)
C22_Witness ==
    /\ p_outcome.act = "return"
    /\ p_outcome.exc = "none"
    /\ LET source == SourceArray(p_text)
       IN  /\ source.known
           /\ \E j \in 1..Len(source.elems) :
                /\ source.elems[j].k # "object"
                /\ \E later \in (j + 1)..Len(source.elems) :
                    /\ source.elems[later].k = "object"
                    /\ "id" \notin DOMAIN source.elems[later].o
           /\ \E j \in 1..Len(source.elems) :
                /\ source.elems[j].k = "object"
                /\ {"correct_index", "correctIndex"} \subseteq DOMAIN source.elems[j].o

---------------------------------------------------------------------------
(* Fallback runs: one call of _generate_fallback_question(topic, n) *)

(* the display names of TOPICS in src/app.py *)
DisplayNames ==
    { <<"W", "e", "l", "l", "n", "e", "s", "s">>,
      <<"T", "e", "c", "h", " ", "T", "r", "e", "n", "d", "s">>,
      <<"S", "p", "a", "c", "e", " ", "E", "x", "p", "l", "o", "r", "a", "t", "i", "o", "n">>,
      <<"W", "o", "r", "l", "d", " ", "H", "i", "s", "t", "o", "r", "y">>,
      <<"S", "c", "i", "e", "n", "c", "e", " ", "&", " ", "N", "a", "t", "u", "r", "e">>,
      <<"P", "o", "p", " ", "C", "u", "l", "t", "u", "r", "e">> }

T_world_history ==
    <<"w", "o", "r", "l", "d", " ", "h", "i", "s", "t", "o", "r", "y">>

FallbackTopics ==
    DisplayNames \cup { T_world_history,
                        <<"H", "i", "s", "t", "o", "r", "y">>,
                        <<"W", "e", "l", "l", "n", "e", "s", "s", " ">>,
                        <<"W", "E", "L", "L", "N", "E", "S", "S">>,
                        <<>> }

MaxSlot == 12

InitFallback ==
    /\ g_topic \in FallbackTopics
    /\ g_slot \in 1..MaxSlot
    /\ g_question = <<>>
    /\ QuizIdle
    /\ ValidatorIdle
    /\ ParserIdle
    /\ FeedbackIdle
    /\ ServiceIdle

GenerateFallbackQuestion ==
    /\ g_slot > 0
    /\ g_question = <<>>
    /\ g_question' = _generate_fallback_question(g_topic, g_slot)
    /\ UNCHANGED <<g_topic, g_slot>>
    /\ UNCHANGED <<quizVars, validatorVars, parserVars, feedbackVars, serviceVars>>

NextFallback == GenerateFallbackQuestion

SpecFallback == InitFallback /\ [][NextFallback]_vars

(* the question, options and correct_index of two dicts are the same *)
SameQuestion(d, e) ==
    \A key \in {"question", "options", "correct_index"} : d[key] = e[key]

T_KeyAspectOfWorldHistoryLower ==
    <<"W", "h", "a", "t", " ", "i", "s", " ", "a", " ", "k", "e", "y", " ", "a", "s", "p", "e", "c", "t", " ", "o", "f", " ", "w", "o", "r", "l", "d", " ", "h", "i", "s", "t", "o", "r", "y", "?">>

T_HowLearnWorldHistoryLower ==
    <<"H", "o", "w", " ", "c", "a", "n", " ", "o", "n", "e", " ", "l", "e", "a", "r", "n", " ", "a", "b", "o", "u", "t", " ", "w", "o", "r", "l", "d", " ", "h", "i", "s", "t", "o", "r", "y", "?">>

(* C12: for every topic and slot n >= 1 the Fallback Generator returns    *)
(* entry (n - 1) mod 5 of the topic's own bank when the topic is one of   *)
(* the display names, exactly, and of the generic bank built around the   *)
(* topic otherwise, with id n, and calls no transport; slot n + 5 repeats *)
(* slot n                                                                 *)
C12_FallbackByExactName ==
    g_question # <<>> =>
        LET bank == IF g_topic \in DisplayNames
                    THEN fallback_questions[g_topic]
                    ELSE default_questions(g_topic)
        IN  /\ DOMAIN g_question = CandidateKeys
            /\ g_question["id"] = JInt(g_slot)
            /\ Len(bank) = 5
            /\ SameQuestion(g_question, bank[((g_slot - 1) % 5) + 1])
            /\ g_slot > 5 =>
                    SameQuestion(g_question,
                                 _generate_fallback_question(g_topic, g_slot - 5))
            /\ g_topic \notin DisplayNames =>
                    \E i \in 1..Len(g_question["question"].s) :
                        SubSeq(g_question["question"].s, i, i + Len(g_topic) - 1)
                            = g_topic
            /\ (g_topic = Topic_WorldHistory /\ g_slot \in {1, 6, 11}) =>
                    g_question["question"] = JStr(T_WorldWarII)
            /\ (g_topic = T_world_history /\ g_slot \in {1, 6, 11}) =>
                    g_question["question"] = JStr(T_KeyAspectOfWorldHistoryLower)
            /\ (g_topic = T_world_history /\ g_slot \in {3, 8}) =>
                    g_question["question"] = JStr(T_HowLearnWorldHistoryLower)
            /\ transport_calls = 0
            /\ fb_calls = 0

(* C12 witness: slot 8 of a topic that differs from a display name only   *)
(* in case, answered from the generic bank                                *)
C12_Witness ==
    /\ g_topic = T_world_history
    /\ g_slot = 8
    /\ g_question # <<>>
    /\ g_question["question"] = JStr(T_HowLearnWorldHistoryLower)

---------------------------------------------------------------------------
(* Feedback Generator: AIService.generate_feedback *)

QuoteChars == {"\"", "'"}

RECURSIVE LStripChars(_, _)
LStripChars(text, chars) ==
    IF text # <<>> /\ Head(text) \in chars THEN LStripChars(Tail(text), chars) ELSE text

RECURSIVE RStripChars(_, _)
RStripChars(text, chars) ==
    IF text # <<>> /\ text[Len(text)] \in chars
    THEN RStripChars(SubSeq(text, 1, Len(text) - 1), chars)
    ELSE text

(* str.strip(chars) *)
StripChars(text, chars) == RStripChars(LStripChars(text, chars), chars)

(* the position of a whitespace character of the text nearest to its     *)
(* middle, 0 when it holds none                                           *)
MiddleSpace(text) ==
    LET spaces == { i \in 1..Len(text) : text[i] \in Whitespace }
        off(i) == IF 2 * i >= Len(text) THEN 2 * i - Len(text) ELSE Len(text) - 2 * i
    IN  IF spaces = {} THEN 0
        ELSE CHOOSE i \in spaces : \A j \in spaces : off(i) < off(j) \/ (off(i) = off(j) /\ i <= j)

(* the words of a text cut at position cut, a whitespace character, or of *)
(* a text that holds none (cut = 0)                                       *)
RECURSIVE SplitAt(_, _)
SplitAt(text, cut) ==
    IF text = <<>> THEN <<>>
    ELSE IF cut = 0 THEN <<text>>
    ELSE SplitAt(SubSeq(text, 1, cut - 1), MiddleSpace(SubSeq(text, 1, cut - 1)))
            \o SplitAt(SubSeq(text, cut + 1, Len(text)),
                       MiddleSpace(SubSeq(text, cut + 1, Len(text))))

(* str.split(): the runs of non-whitespace characters, in order *)
Split(text) == SplitAt(text, MiddleSpace(text))

MaxWords == 50

(* mutant of FirstWords: the slice [:50] left out *)
FirstWords_NoSlice(words) == words

(* `if len(words) > 50: words = words[:50]` *)
FirstWords(words) ==
    IF Len(words) > MaxWords THEN SubSeq(words, 1, MaxWords) ELSE words

(* lines 318-328: the feedback text made of the response *)
FeedbackOfResponse(response) ==
    Join(<<" ">>, FirstWords(Split(StripChars(Strip(response), QuoteChars))))

(* mutant of ExcellentPercent: the bracket starts above 80 *)
ExcellentPercent_Above == 80 + 1

ExcellentPercent == 80

GoodPercent == 60

NiceTryPercent == 40

(* `percentage >= p` for percentage = (score / total) * 100 if total > 0  *)
(* else 0; for the totals drawn the float product falls on the same side  *)
(* of 80, 60 and 40 as the exact quotient                                 *)
PercentageAtLeast(score, total, p) ==
    IF total > 0 THEN 100 * score >= p * total ELSE 0 >= p

(* lines 335-342: the templated sentence *)
TemplatedFeedback(score, total, topic) ==
    IF PercentageAtLeast(score, total, ExcellentPercent)
    THEN <<"E", "x", "c", "e", "l", "l", "e", "n", "t", "!", " ", "Y", "o", "u", " ", "r", "e", "a", "l", "l", "y", " ", "k", "n", "o", "w", " ", "y", "o", "u", "r", " ">>
            \o topic \o <<".">>
    ELSE IF PercentageAtLeast(score, total, GoodPercent)
    THEN <<"G", "o", "o", "d", " ", "j", "o", "b", "!", " ", "S", "o", "l", "i", "d", " ", "u", "n", "d", "e", "r", "s", "t", "a", "n", "d", "i", "n", "g", " ", "o", "f", " ">>
            \o topic \o <<".">>
    ELSE IF PercentageAtLeast(score, total, NiceTryPercent)
    THEN <<"N", "i", "c", "e", " ", "t", "r", "y", "!", " ", "K", "e", "e", "p", " ", "l", "e", "a", "r", "n", "i", "n", "g", " ", "a", "b", "o", "u", "t", " ">>
            \o topic \o <<".">>
    ELSE <<"K", "e", "e", "p", " ", "g", "o", "i", "n", "g", "!", " ">>
            \o topic \o
         <<" ", "t", "a", "k", "e", "s", " ", "p", "r", "a", "c", "t", "i", "c", "e", ".">>

(* mutant of CaughtInFeedback: the except clause catches nothing *)
CaughtInFeedback_Nothing(exc) == exc = "none"

(* `except Exception: pass` *)
CaughtInFeedback(exc) == exc \in {"Exception"}

(* the body of generate_feedback after the transport call ended: the      *)
(* return statement reached (source) and its value, or the exception      *)
FeedbackBody(score, total, topic, response) ==
    IF response.exc # "none" /\ ~CaughtInFeedback(response.exc)
    THEN [exc |-> response.exc, source |-> "none", text |-> <<>>]
    ELSE IF response.exc = "none" /\ response.text # <<>>
    THEN [exc |-> "none", source |-> "model", text |-> FeedbackOfResponse(response.text)]
    ELSE [exc |-> "none", source |-> "template",
          text |-> TemplatedFeedback(score, total, topic)]

---------------------------------------------------------------------------
(* generate_feedback runs: one call of generate_feedback *)

(* the text "1 2 3 ... n" with sep between the words *)
NumberedWords(n, sep) == Join(sep, [i \in 1..n |-> IntText(i)])

MaxResponseWords == 80

MaxTopicWords == 47

MaxTotal == 5

FeedbackResponses ==
    { NumberedWords(n, <<" ">>) : n \in {1, 49, 50, 51, MaxResponseWords} }
        \cup { <<" ", "\n">> \o NumberedWords(n, <<" ", "\t">>) \o <<"\n">> : n \in {3, 51} }
        \cup { <<"\"">> \o NumberedWords(n, <<" ">>) \o <<"\"">> : n \in {2, MaxResponseWords} }
        \cup { <<" ", "\"", " ">> \o NumberedWords(2, <<"\n">>) \o <<" ", "'", "\n">>,
               <<"I", "t", "'", "s", " ", "a", " ">> \o <<"\"">> \o <<"g", "o", "o", "d">> \o <<"\"">> \o <<" ", "s", "c", "o", "r", "e", "!">>,
               <<" ", " ">>,
               <<"\"", "\"">> }

FeedbackOutcomes ==
    {TransportException, TransportText(<<>>)}
        \cup { TransportText(text) : text \in FeedbackResponses }

FeedbackTopics ==
    { Topic_WorldHistory, Topic_History, NumberedWords(MaxTopicWords, <<" ">>) }

InitFeedback ==
    /\ fb_pc = "request"
    /\ fb_total \in 0..MaxTotal
    /\ fb_score \in 0..fb_total
    /\ fb_topic \in FeedbackTopics
    /\ fb_calls = 0
    /\ fb_sleeps = 0
    /\ fb_response = NoResponse
    /\ fb_source = "none"
    /\ fb_result = <<>>
    /\ fb_raised = "none"
    /\ QuizIdle
    /\ ValidatorIdle
    /\ ParserIdle
    /\ FallbackIdle
    /\ ServiceIdle

(* self.model.generate_content(...) is called *)
SendFeedbackRequest ==
    /\ fb_pc = "request"
    /\ fb_pc' = "await"
    /\ fb_calls' = fb_calls + 1
    /\ UNCHANGED <<fb_score, fb_total, fb_topic, fb_sleeps, fb_response, fb_source,
                   fb_result, fb_raised>>
    /\ UNCHANGED <<quizVars, validatorVars, parserVars, fallbackVars, serviceVars>>

(* the call leaves through a return statement or with an exception *)
EndFeedback(body) ==
    IF body.exc # "none" THEN
        /\ fb_pc' = "raised"
        /\ fb_raised' = body.exc
        /\ UNCHANGED <<fb_source, fb_result>>
    ELSE
        /\ fb_pc' = "returned"
        /\ fb_source' = body.source
        /\ fb_result' = body.text
        /\ UNCHANGED fb_raised

(* the call of the model endpoint ends, and the rest of the body runs *)
ReceiveFeedbackResponse(outcome) ==
    /\ fb_pc = "await"
    /\ fb_response' = outcome
    /\ EndFeedback(FeedbackBody(fb_score, fb_total, fb_topic, _make_request(outcome)))
    /\ UNCHANGED <<fb_score, fb_total, fb_topic, fb_calls, fb_sleeps>>
    /\ UNCHANGED <<quizVars, validatorVars, parserVars, fallbackVars, serviceVars>>

NextFeedback ==
    \/ SendFeedbackRequest
    \/ \E outcome \in FeedbackOutcomes : ReceiveFeedbackResponse(outcome)

SpecFeedback == InitFeedback /\ [][NextFeedback]_vars

---------------------------------------------------------------------------
(* Properties of generate_feedback, checked under SpecFeedback *)

(* the whitespace-separated words of a text, by their positions *)
WordStarts(text) ==
    { i \in 1..Len(text) :
        text[i] \notin Whitespace /\ (i = 1 \/ text[i - 1] \in Whitespace) }

WordEnd(text, i) ==
    CHOOSE j \in i..Len(text) :
        /\ \A m \in i..j : text[m] \notin Whitespace
        /\ j = Len(text) \/ text[j + 1] \in Whitespace

(* the k-th smallest member of a set of numbers *)
Kth(S, k) == CHOOSE s \in S : Cardinality({t \in S : t < s}) = k - 1

WordsAt(text, starts) ==
    [k \in 1..Cardinality(starts) |->
        SubSeq(text, Kth(starts, k), WordEnd(text, Kth(starts, k)))]

WordsOf(text) == WordsAt(text, WordStarts(text))

Min(S) == CHOOSE s \in S : \A t \in S : s <= t

Max(S) == CHOOSE s \in S : \A t \in S : s >= t

(* the part of a text between its first and its last character outside   *)
(* chars, <<>> when there is none                                         *)
Between(text, outside) ==
    IF outside = {} THEN <<>> ELSE SubSeq(text, Min(outside), Max(outside))

Without(text, chars) == Between(text, { i \in 1..Len(text) : text[i] \notin chars })

(* a text without the whitespace around it and, inside that, without the  *)
(* quote characters around it                                             *)
Trimmed(text) == Without(Without(text, Whitespace), QuoteChars)

(* C13: the string generate_feedback returns has at most 50 words, be it  *)
(* made of the model response or be it the templated sentence             *)
C13_AtMostFiftyWords ==
    fb_pc = "returned" => Cardinality(WordStarts(fb_result)) <= 50

(* C14: a response of n words comes back as its first min(n, 50) words,   *)
(* taken after the surrounding whitespace and quotes are trimmed, in      *)
(* order and joined by single spaces; of 80 words the first 50            *)
C14_FirstFiftyWords ==
    fb_source = "model" =>
        LET words == WordsOf(Trimmed(fb_response.text))
            m     == IF Len(words) < 50 THEN Len(words) ELSE 50
        IN  /\ WordsOf(fb_result) = SubSeq(words, 1, m)
            /\ Cardinality({ i \in 1..Len(fb_result) : fb_result[i] \in Whitespace })
                    = (IF m = 0 THEN 0 ELSE m - 1)
            /\ \A i \in 1..Len(fb_result) :
                    fb_result[i] \in Whitespace => fb_result[i] = " "
            /\ fb_response.text = NumberedWords(80, <<" ">>) =>
                    fb_result = NumberedWords(50, <<" ">>)

(* C14 witness: a response of 80 words inside quotes came back as 50 *)
C14_Witness ==
    /\ fb_source = "model"
    /\ fb_response.text[1] = "\""
    /\ Len(WordsOf(fb_response.text)) = 80
    /\ Len(WordsOf(fb_result)) = 50

T_ExcellentHistory ==
    <<"E", "x", "c", "e", "l", "l", "e", "n", "t", "!", " ", "Y", "o", "u", " ", "r", "e", "a", "l", "l", "y", " ", "k", "n", "o", "w", " ", "y", "o", "u", "r", " ", "H", "i", "s", "t", "o", "r", "y", ".">>

(* the templated sentence starts with the opening words and holds the     *)
(* topic name                                                             *)
IsTemplate(text, opening, topic) ==
    /\ Len(text) >= Len(opening) + Len(topic)
    /\ SubSeq(text, 1, Len(opening)) = opening
    /\ \E i \in Len(opening) + 1..Len(text) - Len(topic) + 1 :
            SubSeq(text, i, i + Len(topic) - 1) = topic

(* C15: when the transport fails or the response is empty the templated   *)
(* sentence of the percentage bracket comes back: excellent from 80,      *)
(* good from 60, nice try from 40, keep going below, with the topic name  *)
C15_TemplateByBracket ==
    (fb_pc = "returned" /\ (fb_response.kind = "exception" \/ fb_response.text = <<>>))
        => LET percent == IF fb_total = 0 THEN 0 ELSE (100 * fb_score) \div fb_total
               opening == IF percent >= 80 THEN <<"E", "x", "c", "e", "l", "l", "e", "n", "t", "!">>
                          ELSE IF percent >= 60 THEN <<"G", "o", "o", "d", " ", "j", "o", "b", "!">>
                          ELSE IF percent >= 40 THEN <<"N", "i", "c", "e", " ", "t", "r", "y", "!">>
                          ELSE <<"K", "e", "e", "p", " ", "g", "o", "i", "n", "g", "!">>
           IN  /\ fb_source = "template"
               /\ IsTemplate(fb_result, opening, fb_topic)
               /\ (fb_score = 4 /\ fb_total = 5 /\ fb_topic = Topic_History)
                        => fb_result = T_ExcellentHistory

(* C15 witness: the transport failed on a call with score 4 of 5 *)
C15_Witness ==
    /\ fb_pc = "returned"
    /\ fb_response.kind = "exception"
    /\ fb_score = 4
    /\ fb_total = 5
    /\ fb_topic = Topic_History

(* C16: a generate_feedback call makes exactly one transport call and no  *)
(* wait, ends with the text made of the response or with the templated    *)
(* text, and never raises                                                 *)
C16_OneCallTwoOutcomes ==
    /\ fb_calls \in 0..1
    /\ fb_sleeps = 0
    /\ fb_raised = "none"
    /\ fb_pc \in {"idle", "request", "await", "returned"}
    /\ fb_pc \in {"await", "returned"} <=> fb_calls = 1
    /\ fb_pc = "returned" <=> fb_source \in {"model", "template"}
    /\ fb_source \in {"none", "model", "template"}

(* C16 witness: the call returned the templated text after the transport  *)
(* raised, total being 0                                                  *)
C16_Witness ==
    /\ fb_pc = "returned"
    /\ fb_total = 0
    /\ fb_response.kind = "exception"
    /\ fb_source = "template"
    /\ fb_calls = 1

---------------------------------------------------------------------------
(* Records without a correct-answer index, checked under Spec *)

LacksIndex(v) ==
    /\ v.k = "object"
    /\ "correct_index" \notin DOMAIN v.o
    /\ "correctIndex" \notin DOMAIN v.o

(* the elements of the array the last response was parsed to *)
LastSource ==
    IF last_response.kind = "response"
    THEN SourceArray(last_response.text)
    ELSE [known |-> FALSE, elems |-> <<>>]

(* the number of candidates among the first 5 that the Validator accepts  *)
(* and that stem from a record carrying an index                          *)
ValidWithIndex(elems, candidates) ==
    LET positions == ObjectPositions(elems)
    IN  Cardinality({ n \in 1..Min({5, Len(candidates)}) :
                        /\ IsValidForCode(candidates[n])
                        /\ ~LacksIndex(elems[positions[n]]) })

(* C23: a record with neither correct_index nor correctIndex is rejected: *)
(* its question is in no returned quiz, and an attempt is accepted only   *)
(* with 3 valid candidates that carry an index                            *)
C23_NoIndexRejected ==
    (Accepted /\ LastSource.known) =>
        /\ \A j \in 1..Len(LastSource.elems) :
                LacksIndex(LastSource.elems[j]) =>
                    \A i \in 1..Len(result) :
                        result[i]["question"] # LastSource.elems[j].o["question"]
        /\ ValidWithIndex(LastSource.elems, ParsedOf(last_response)) >= 3

---------------------------------------------------------------------------
(* The feedback text is never empty, checked under SpecFeedback *)

(* C24: generate_feedback never returns an empty string; a response with  *)
(* no word in it (only whitespace and quote characters) gives the         *)
(* templated sentence of the percentage bracket                           *)
C24_NeverEmpty ==
    fb_pc = "returned" =>
        /\ fb_result # <<>>
        /\ (/\ fb_response.kind = "response"
            /\ \A i \in 1..Len(fb_response.text) :
                    fb_response.text[i] \in Whitespace \cup QuoteChars)
                => fb_result = TemplatedFeedback(fb_score, fb_total, fb_topic)

---------------------------------------------------------------------------
(* Service runs: the requests 1..MaxRequests, each served by a thread of  *)
(* its own, call get_ai_service once; a step is one read or write of the  *)
(* module global, and the threads interleave between steps                *)

InitService ==
    /\ _ai_service = 0
    /\ s_pc = [r \in 1..MaxRequests |-> "test"]
    /\ s_local = [r \in 1..MaxRequests |-> 0]
    /\ s_got = [r \in 1..MaxRequests |-> 0]
    /\ s_built = 0
    /\ s_writes = 0
    /\ QuizIdle
    /\ ValidatorIdle
    /\ ParserIdle
    /\ FallbackIdle
    /\ FeedbackIdle

(* `if _ai_service is None:` *)
TestNone(r) ==
    /\ s_pc[r] = "test"
    /\ s_pc' = [s_pc EXCEPT ![r] = IF _ai_service = 0 THEN "construct" ELSE "return"]
    /\ UNCHANGED <<_ai_service, s_local, s_got, s_built, s_writes>>
    /\ UNCHANGED <<quizVars, validatorVars, parserVars, fallbackVars, feedbackVars>>

(* `AIService(api_key, model)`: a new instance, not yet stored *)
Construct(r) ==
    /\ s_pc[r] = "construct"
    /\ s_built' = s_built + 1
    /\ s_local' = [s_local EXCEPT ![r] = s_built + 1]
    /\ s_pc' = [s_pc EXCEPT ![r] = "assign"]
    /\ UNCHANGED <<_ai_service, s_got, s_writes>>
    /\ UNCHANGED <<quizVars, validatorVars, parserVars, fallbackVars, feedbackVars>>

(* `_ai_service = ...`: the store of the instance just built *)
Assign(r) ==
    /\ s_pc[r] = "assign"
    /\ _ai_service' = s_local[r]
    /\ s_writes' = s_writes + 1
    /\ s_local' = [s_local EXCEPT ![r] = 0]
    /\ s_pc' = [s_pc EXCEPT ![r] = "return"]
    /\ UNCHANGED <<s_got, s_built>>
    /\ UNCHANGED <<quizVars, validatorVars, parserVars, fallbackVars, feedbackVars>>

(* `return _ai_service`: the caller is handed what the global holds now *)
ReturnService(r) ==
    /\ s_pc[r] = "return"
    /\ s_got' = [s_got EXCEPT ![r] = _ai_service]
    /\ s_pc' = [s_pc EXCEPT ![r] = "done"]
    /\ UNCHANGED <<_ai_service, s_local, s_built, s_writes>>
    /\ UNCHANGED <<quizVars, validatorVars, parserVars, fallbackVars, feedbackVars>>

NextService ==
    \/ \E r \in 1..MaxRequests : TestNone(r)
    \/ \E r \in 1..MaxRequests : Construct(r)
    \/ \E r \in 1..MaxRequests : Assign(r)
    \/ \E r \in 1..MaxRequests : ReturnService(r)

SpecService == InitService /\ [][NextService]_vars

(* C25: under every interleaving of the requests the global is written at *)
(* most once, at most one AIService instance is constructed, and every    *)
(* caller is handed that same instance                                    *)
C25_OneInstance ==
    /\ s_writes <= 1
    /\ s_built <= 1
    /\ \A r1, r2 \in 1..MaxRequests :
            (s_pc[r1] = "done" /\ s_pc[r2] = "done") => s_got[r1] = s_got[r2]
====
